---- MODULE Spec2Model ----
(***************************************************************************)
(* AF_XDP sockets: the kernel socket core (xsk.c: rx, generic tx, bind,    *)
(* release, setsockopt) and the user-side ring helpers of the xdpsock      *)
(* sample (xdpsock_user.c).  The kernel's ring helpers (xsk_queue.h) and   *)
(* umem helpers (xdp_umem.c) are not part of the source tree at hand; they *)
(* are modelled from section 4.1 / 4.2 of the specification.               *)
(***************************************************************************)
EXTENDS Integers, Sequences, FiniteSets, TLC

(* ------------------------------ bounds -------------------------------- *)
\* Rings hold 2^RingOrder slots.
RingOrder == 1
\* Frames of the umem.
NumFrames == 3
\* Bytes per frame.
FrameSize == 4
\* Receive headroom of the umem.
Headroom == 1
\* MTU of every device (a descriptor of length Mtu+1 still fits a frame).
Mtu == 3
\* Number of entries the user produces in all, on the fill and tx rings together.
MaxProd == 3
\* Largest batch a user-side helper is called with.
MaxBatch == 2
\* Failed rx deliveries per socket that are explored.
MaxDropped == 1
\* Device drops / busy answers and allocation or copy failures explored.
MaxFaults == 1
\* References on one device that bind calls may pile up.
MaxRef == 2
\* Length of the packet the tx-only benchmark sends (sizeof(pkt_data) - 1, scaled).
PktLen == 1
\* The tx and completion rings that take more than one batch hold 2^BatchOrder slots.
BatchOrder == 5
\* Entries the user puts on the fill ring in one run of a benchmark loop, the
\* frames donated at start included.
MaxLoop == 5

(* ---------------------------- constants ------------------------------- *)
TX_BATCH_SIZE == 16

\* the null pointer: of a ring, umem or props; of a device; of a umem reference
NULL == [null |-> TRUE]
NODEV == "NULL"
NOUMEM == 0
\* u32 arithmetic.  The counters are free-running 32-bit unsigned integers;
\* the model checker's integers are 32-bit signed, so the model keeps the
\* wrap-around at 30 bits (every ring size divides 2^30, as it divides 2^32).
UMod == 2 ^ 30
U32(x) == x % UMod

Socks == {1, 2}
Devs == {"d0", "d1"}
Queues == {0, 1}
\* queue ids a caller may ask for; the devices have 2 rx queues each
NumRxQueues == [d \in Devs |-> 2]
Frames == 0 .. (NumFrames - 1)
\* lengths of delivered buffers: one that fits behind the headroom, one that does not
RxLens == {1, FrameSize - Headroom + 1}
\* lengths of tx descriptors: one below the MTU, one above it that still fits a frame
TxLens == {1, Mtu + 1}
\* what the allocator, the copy and the device may answer to one submission
Outcomes == {"NET_XMIT_SUCCESS", "NET_XMIT_CN", "NET_XMIT_DROP", "NETDEV_TX_BUSY",
             "alloc_fail", "store_fail"}
RingSize == 2 ^ RingOrder

ZeroDesc == [idx |-> 0, len |-> 0, offset |-> 0]

(* ------------------- kernel ring (struct xsk_queue) ------------------- *)
\* A ring: the shared memory (producer, consumer, desc) and the kernel's
\* private fields.  prod_head counts slots reserved or written by the
\* kernel producer that are not yet published.
xskq_create(entries, umem_queue, start) ==
    [nentries |-> entries, umem_queue |-> umem_queue,
     prod_head |-> start, producer |-> start, consumer |-> start,
     desc |-> [i \in 0 .. (entries - 1) |-> IF umem_queue THEN 0 ELSE ZeroDesc],
     props |-> NULL, invalid_descs |-> 0]

Slot(q, i) == i % q.nentries

xskq_set_umem(q, props) == IF q = NULL THEN q ELSE [q EXCEPT !.props = props]

xskq_nb_avail(q) == U32(q.producer - q.consumer)

xskq_nb_free(q, producer) == U32(q.nentries - U32(producer - q.consumer))

xskq_is_valid_id(q, id) == q.props = NULL \/ id < q.props.nframes

xskq_is_valid_desc(q, d) ==
    q.props = NULL \/ (d.idx < q.props.nframes /\ d.offset + d.len <= q.props.frame_size)

\* Skip (consume and count) invalid entries at the head of the ring.
RECURSIVE xskq_validate(_)
xskq_validate(q) ==
    IF xskq_nb_avail(q) = 0 THEN q
    ELSE LET e == q.desc[Slot(q, q.consumer)]
             ok == IF q.umem_queue THEN xskq_is_valid_id(q, e) ELSE xskq_is_valid_desc(q, e)
         IN IF ok THEN q
            ELSE xskq_validate([q EXCEPT !.consumer = U32(@ + 1),
                                         !.invalid_descs = @ + 1])

\* peek: the ring after skipping invalid entries, and whether it has a head entry, and that entry
xskq_peek(q) ==
    LET v == xskq_validate(q)
    IN [q |-> v, some |-> xskq_nb_avail(v) # 0, e |-> v.desc[Slot(v, v.consumer)]]

xskq_peek_id(q) == xskq_peek(q)
xskq_peek_desc(q) == xskq_peek(q)

\* discard: advance the consumer counter past the peeked entry
xskq_discard(q) == [q EXCEPT !.consumer = U32(@ + 1)]
xskq_discard_id(q) == xskq_discard(q)
xskq_discard_desc(q) == xskq_discard(q)

\* reserve one slot without publishing it: the check, then the increment
xskq_reserve_full(q, head) == xskq_nb_free(q, head) = 0
xskq_reserve_store(q, head) == [q EXCEPT !.prod_head = U32(head + 1)]
xskq_reserve_id(q) ==
    IF xskq_reserve_full(q, q.prod_head)
    THEN [q |-> q, err |-> "ENOSPC"]
    ELSE [q |-> xskq_reserve_store(q, q.prod_head), err |-> "0"]

\* produce an id and publish it; fails when the ring has no free slot
xskq_produce_id(q, id) ==
    IF xskq_nb_free(q, q.producer) = 0
    THEN [q |-> q, err |-> "ENOSPC"]
    ELSE [q |-> [q EXCEPT !.desc[Slot(q, q.producer)] = id,
                          !.producer = U32(@ + 1)],
          err |-> "0"]

\* write one descriptor without publishing it
xskq_produce_batch_desc(q, id, len, offset) ==
    IF xskq_nb_free(q, q.prod_head) = 0
    THEN [q |-> q, err |-> "ENOSPC"]
    ELSE [q |-> [q EXCEPT !.desc[Slot(q, q.prod_head)] =
                              [idx |-> id, len |-> len, offset |-> offset],
                          !.prod_head = U32(@ + 1)],
          err |-> "0"]

\* publish the descriptors written so far
xskq_produce_flush_desc(q) == [q EXCEPT !.producer = q.prod_head]

(* --------------- user-side ring helpers (xdpsock_user.c) --------------- *)
\* struct xdp_umem_uqueue / struct xdp_uqueue: the user's cached counters
uqueue(start) ==
    [cached_prod |-> start, cached_cons |-> start,
     mask |-> RingSize - 1, size |-> RingSize]

\* a free-slot count that never looks at the shared consumer counter
umem_nb_free_stale(uq, q, nb) ==
    [uq |-> uq, n |-> U32(uq.size - U32(uq.cached_prod - uq.cached_cons))]

umem_nb_free(uq, q, nb) ==
    LET free_entries == U32(uq.size - U32(uq.cached_prod - uq.cached_cons))
        r == [uq EXCEPT !.cached_cons = q.consumer]
    IN IF free_entries >= nb
       THEN [uq |-> uq, n |-> free_entries]
       ELSE [uq |-> r, n |-> U32(r.size - U32(r.cached_prod - r.cached_cons))]

\* a free-slot count that trusts the ring to be empty
xq_nb_free_unchecked(uq, q, ndescs) == [uq |-> uq, n |-> uq.size]

xq_nb_free(uq, q, ndescs) ==
    LET free_entries == U32(uq.cached_cons - uq.cached_prod)
        r == [uq EXCEPT !.cached_cons = U32(q.consumer + uq.size)]
    IN IF free_entries >= ndescs
       THEN [uq |-> uq, n |-> free_entries]
       ELSE [uq |-> r, n |-> U32(r.cached_cons - r.cached_prod)]

umem_nb_avail(uq, q, nb) ==
    LET entries == U32(uq.cached_prod - uq.cached_cons)
        r == [uq EXCEPT !.cached_prod = q.producer]
        e2 == U32(r.cached_prod - r.cached_cons)
    IN IF entries = 0
       THEN [uq |-> r, n |-> IF e2 > nb THEN nb ELSE e2]
       ELSE [uq |-> uq, n |-> IF entries > nb THEN nb ELSE entries]

xq_nb_avail(uq, q, ndescs) == umem_nb_avail(uq, q, ndescs)

\* the producers' loop: slot (cached_prod++ & mask) takes d[i], for i < nb
RECURSIVE WriteSlots(_, _, _, _, _)
WriteSlots(desc, mask, prod, d, nb) ==
    IF nb = 0 THEN desc
    ELSE WriteSlots([desc EXCEPT ![prod % (mask + 1)] = Head(d)],
                    mask, U32(prod + 1), Tail(d), nb - 1)

\* a consumers' loop that does not advance: every d[i] is read from one slot
ReadSlotsOnce(desc, mask, cons, nb) == [k \in 1 .. nb |-> desc[cons % (mask + 1)]]

\* the consumers' loop: d[i] is read from slot (cached_cons++ & mask)
RECURSIVE ReadSlots(_, _, _, _)
ReadSlots(desc, mask, cons, nb) ==
    IF nb = 0 THEN << >>
    ELSE << desc[cons % (mask + 1)] >> \o ReadSlots(desc, mask, U32(cons + 1), nb - 1)

umem_fill_to_kernel(uq, q, d, nb) ==
    LET f == umem_nb_free(uq, q, nb)
        p == U32(f.uq.cached_prod + nb)
    IN IF f.n < nb
       THEN [uq |-> f.uq, q |-> q, ret |-> "ENOSPC"]
       ELSE [uq |-> [f.uq EXCEPT !.cached_prod = p],
             q |-> [q EXCEPT !.desc = WriteSlots(q.desc, uq.mask, uq.cached_prod, d, nb),
                             !.producer = p],
             ret |-> "0"]

\* a variant that donates the first descriptor's frame for every entry
umem_fill_to_kernel_ex_first(uq, q, d, nb) ==
    umem_fill_to_kernel(uq, q, [i \in 1 .. Len(d) |-> d[1].idx], nb)

\* the same, taking the indices from descriptors
umem_fill_to_kernel_ex(uq, q, d, nb) ==
    umem_fill_to_kernel(uq, q, [i \in 1 .. Len(d) |-> d[i].idx], nb)

umem_complete_from_kernel(uq, q, nb) ==
    LET a == umem_nb_avail(uq, q, nb)
        c == U32(a.uq.cached_cons + a.n)
    IN [uq |-> [a.uq EXCEPT !.cached_cons = c],
        q |-> IF a.n > 0 THEN [q EXCEPT !.consumer = c] ELSE q,
        d |-> ReadSlots(q.desc, uq.mask, uq.cached_cons, a.n),
        ret |-> a.n]

xq_enq(uq, q, descs, ndescs) ==
    LET f == xq_nb_free(uq, q, ndescs)
        p == U32(f.uq.cached_prod + ndescs)
    IN IF f.n < ndescs
       THEN [uq |-> f.uq, q |-> q, ret |-> "ENOSPC"]
       ELSE [uq |-> [f.uq EXCEPT !.cached_prod = p],
             q |-> [q EXCEPT !.desc = WriteSlots(q.desc, uq.mask, uq.cached_prod,
                                                 descs, ndescs),
                             !.producer = p],
             ret |-> "0"]

\* descriptor i of the batch goes to slot (cached_prod++ & mask); the inner
\* `idx` hides the parameter, so the frame index written is slot + i
TxOnlyDescs(uq, ndescs) ==
    [k \in 1 .. ndescs |->
        [idx |-> (U32(uq.cached_prod + k - 1) % (uq.mask + 1)) + (k - 1),
         len |-> PktLen, offset |-> 0]]

xq_enq_tx_only(uq, q, idx, ndescs) ==
    LET f == xq_nb_free(uq, q, ndescs)
        p == U32(f.uq.cached_prod + ndescs)
    IN IF f.n < ndescs
       THEN [uq |-> f.uq, q |-> q, ret |-> "ENOSPC"]
       ELSE [uq |-> [f.uq EXCEPT !.cached_prod = p],
             q |-> [q EXCEPT !.desc = WriteSlots(q.desc, uq.mask, uq.cached_prod,
                                                 TxOnlyDescs(uq, ndescs), ndescs),
                             !.producer = p],
             ret |-> "0"]

xq_deq(uq, q, ndescs) ==
    LET a == xq_nb_avail(uq, q, ndescs)
        c == U32(a.uq.cached_cons + a.n)
    IN [uq |-> [a.uq EXCEPT !.cached_cons = c],
        q |-> IF a.n > 0 THEN [q EXCEPT !.consumer = c] ELSE q,
        d |-> ReadSlots(q.desc, uq.mask, uq.cached_cons, a.n),
        ret |-> a.n]

(* ------------------------------ state --------------------------------- *)
VARIABLES
    xs,        \* struct xdp_sock: dev, queue_id, umem, rx_dropped, dead (SOCK_DEAD)
    rx,        \* xs->rx, per socket: a ring or NULL
    tx,        \* xs->tx
    umem,      \* struct xdp_umem, per registering socket: NULL or its fields
    fq,        \* umem->fq
    cq,        \* umem->cq
    netdev,    \* struct net_device: refcnt (references held by sockets), up, mtu
    inflight,  \* submitted transmit buffers whose destructor has not run: [sock][id] -> count
    warned,    \* WARN_ON_ONCE in xsk_destruct_skb has fired
    held,      \* per umem: the frames the user holds
    ufq, ucq,  \* the user's struct xdp_umem_uqueue for fq / cq, per umem
    urx, utx,  \* the user's struct xdp_uqueue for rx / tx, per socket
    faults,    \* number of failed submissions so far
    base,      \* the value the ring counters started from
    app,       \* the sample program's loop: its position, its locals and outstanding_tx
    xmit,      \* per socket: the locals of its sendmsg call in progress, or idle
    bnd,       \* per socket: its bind call between the two stores of the binding, or idle
    sk,        \* struct sock, per socket: refcnt (sk_refcnt), inmap (the hook's map
               \* refers to it), destroyed (sk_destruct has run, the memory is freed)
    hook,      \* per cpu: the socket the hook is delivering to, or 0
    rel,       \* per socket: its release call and its removal from the hook's map, each
               \* idle or waiting in synchronize_net for the deliveries in `wait`
    reg,       \* per socket and thread: its XDP_UMEM_REG call between the check of
               \* xs->umem and mutex_lock, or idle
    ret        \* the last call and what it returned; for sendmsg also its
               \* MSG_DONTWAIT flag and the number of frames the device accepted, for an
               \* rx call also the buffer delivered, the frame its memcpy wrote to (or
               \* NumFrames) and the number of bytes written

NoArg == [dev |-> NODEV, queue |-> 0, len |-> 0]
Ret(op, s, err) ==
    [op |-> op, sock |-> s, err |-> err, arg |-> NoArg, dontwait |-> FALSE,
     id |-> NumFrames, copied |-> 0]

\* a call has taken a step and has not returned
InCall == Ret("in_call", 0, "0")

kvars == << xs, rx, tx, umem, fq, cq, netdev, inflight, warned >>
uvars == << held, ufq, ucq, urx, utx >>
pvars == << xmit, bnd >>
cvars == << sk, hook, rel, reg >>
vars == << xs, rx, tx, umem, fq, cq, netdev, inflight, warned,
           held, ufq, ucq, urx, utx, faults, base, app, xmit, bnd, sk, hook, rel, reg,
           ret >>

Cpus == {1}
Threads == {1, 2}
\* a socket the file refers to, and one the hook's map refers to as well
SkFresh == [refcnt |-> 1, inmap |-> FALSE, destroyed |-> FALSE]
SkMapped == [refcnt |-> 2, inmap |-> TRUE, destroyed |-> FALSE]
RelIdle == [pc |-> "idle", wait |-> {}, old |-> {}, mpc |-> "idle", mwait |-> {}]
RegIdle == [pc |-> "idle", mr |-> [len |-> 0, frame_size |-> 0, headroom |-> 0]]
\* no call is in progress and no delivery is under way; the hook's map holds
\* the sockets that have an rx ring (xsk_is_setup_for_bpf_map)
\* the sample program outside its loops: no descriptors in hand, nothing sent
\* no xq_deq call in progress
DeqIdle == [pc |-> "idle", start |-> 0, nb |-> 0, known |-> FALSE, n |-> 0,
            got |-> << >>, pub |-> FALSE]
AppIdle == [pc |-> "idle", descs |-> << >>, outstanding_tx |-> 0, failed |-> FALSE,
            stores |-> << >>, deq |-> DeqIdle]

InitCalls ==
    /\ sk = [s \in Socks |-> IF rx[s] # NULL THEN SkMapped ELSE SkFresh]
    /\ hook = [c \in Cpus |-> 0]
    /\ rel = [s \in Socks |-> RelIdle]
    /\ reg = [s \in Socks |-> [t \in Threads |-> RegIdle]]

\* xs->mutex of socket s is free: no sendmsg and no bind is inside it
MutexFree(s) == xmit[s].pc = "idle" /\ bnd[s].pc = "idle"

(* ------------------------------ rx path ------------------------------- *)
\* room behind the headroom of a frame
xdp_umem_room(u) == u.props.frame_size - u.frame_headroom

\* if (xs->dev != xdp->rxq->dev || xs->queue_id != xdp->rxq->queue_index)
rcv_match(x, xdp) == x.dev = xdp.dev /\ x.queue_id = xdp.queue

\* err = xskq_produce_batch_desc(xs->rx, *id, len, xs->umem->frame_headroom)
rcv_produce_nohr(q, id, len, u) == xskq_produce_batch_desc(q, id, len, 0)
rcv_produce(q, id, len, u) == xskq_produce_batch_desc(q, id, len, u.frame_headroom)

\* if (!err) xskq_discard_id(xs->umem->fq)
rcv_discard_always(q, err) == xskq_discard_id(q)
rcv_discard(q, err) == IF err = "0" THEN xskq_discard_id(q) ELSE q

__xsk_rcv(s, xdp) ==
    LET x == xs[s]
        u == umem[x.umem]
        p == xskq_peek_id(fq[x.umem])
        r == rcv_produce(rx[s], p.e, xdp.len, u)
        same == [err |-> "EINVAL", fq |-> fq, rx |-> rx, id |-> NumFrames, copied |-> 0]
    IN IF ~rcv_match(x, xdp)
       THEN same
       ELSE IF ~p.some
       THEN [same EXCEPT !.err = "ENOSPC", !.fq = [fq EXCEPT ![x.umem] = p.q]]
       ELSE [err |-> r.err,
             fq |-> [fq EXCEPT ![x.umem] = rcv_discard(p.q, r.err)],
             rx |-> [rx EXCEPT ![s] = r.q],
             id |-> p.e,
             copied |-> xdp.len]

\* if (!err) ... else xs->rx_dropped++
rcv_account_always(x, err) == [x EXCEPT !.rx_dropped = @ + 1]
rcv_account(x, err) == IF err = "0" THEN x ELSE [x EXCEPT !.rx_dropped = @ + 1]

xsk_flush(q) == xskq_produce_flush_desc(q)

\* the buffers the hook may deliver: any length on the queue the sample binds,
\* and a short buffer on every other queue
XdpBuffs == {b \in [dev : Devs, queue : Queues, len : RxLens] :
                 b.len = 1 \/ (b.dev = "d0" /\ b.queue = 0)}

\* the hook delivers only to sockets that are in its map (xsk_is_setup_for_bpf_map)
CanDeliver(s) == sk[s].inmap /\ rx[s] # NULL /\ xs[s].rx_dropped < MaxDropped

XskRcv(s, xdp) ==
    /\ CanDeliver(s)
    /\ LET r == __xsk_rcv(s, xdp)
       IN /\ fq' = r.fq
          /\ rx' = r.rx
          /\ xs' = [xs EXCEPT ![s] = rcv_account(@, r.err)]
          /\ ret' = [Ret("xsk_rcv", s, r.err) EXCEPT !.arg = xdp, !.id = r.id,
                                                      !.copied = r.copied]
    /\ UNCHANGED << tx, umem, cq, netdev, inflight, warned, faults, base, app, cvars, xmit, bnd >>
    /\ UNCHANGED uvars
    /\ UNCHANGED pvars

XskFlush(s) ==
    /\ rx[s] # NULL
    /\ rx[s].producer # rx[s].prod_head
    /\ rx' = [rx EXCEPT ![s] = xsk_flush(@)]
    /\ ret' = Ret("xsk_flush", s, "0")
    /\ UNCHANGED << xs, tx, umem, fq, cq, netdev, inflight, warned, faults, base, app, cvars, xmit, bnd >>
    /\ UNCHANGED uvars
    /\ UNCHANGED pvars

XskGenericRcv(s, xdp) ==
    /\ CanDeliver(s)
    /\ LET r == __xsk_rcv(s, xdp)
       IN /\ fq' = r.fq
          /\ rx' = IF r.err = "0" THEN [r.rx EXCEPT ![s] = xsk_flush(@)] ELSE r.rx
          /\ xs' = [xs EXCEPT ![s] = rcv_account(@, r.err)]
          /\ ret' = [Ret("xsk_generic_rcv", s, r.err) EXCEPT !.arg = xdp, !.id = r.id,
                                                      !.copied = r.copied]
    /\ UNCHANGED << tx, umem, cq, netdev, inflight, warned, faults, base, app, cvars, xmit, bnd >>
    /\ UNCHANGED uvars
    /\ UNCHANGED pvars

(* ------------------------------ tx path ------------------------------- *)
\* The locals of one xsk_generic_xmit call together with the objects it works
\* on: pc is "top" (at the while condition), "reserve" (between the load and
\* the store of the completion ring's reservation) or "out".
NoInflight == [f \in Frames |-> 0]
\* a call that starts with one iteration less than TX_BATCH_SIZE
xmit_enter_short(t, c, inf) ==
    [pc |-> "top", max_batch |-> TX_BATCH_SIZE - 1, sent_frame |-> FALSE, err |-> "0",
     desc |-> ZeroDesc, head |-> 0, n |-> 0, faulted |-> FALSE,
     tx |-> t, cq |-> c, inflight |-> inf]

xmit_enter(t, c, inf) ==
    [pc |-> "top", max_batch |-> TX_BATCH_SIZE, sent_frame |-> FALSE, err |-> "0",
     desc |-> ZeroDesc, head |-> 0, n |-> 0, faulted |-> FALSE,
     tx |-> t, cq |-> c, inflight |-> inf]

\* if (xskq_reserve_id(xs->umem->cq)): the completion ring has no slot to reserve
xmit_reserve_ignored(st) == FALSE
xmit_reserve_fails(st) == xskq_reserve_full(st.cq, st.cq.prod_head)

\* while (xskq_peek_desc) { if (max_batch-- == 0) ...; if (xskq_reserve_id()) ...
\* up to the load and check of the reservation
xmit_top(st) ==
    LET p == xskq_peek_desc(st.tx)
        a == [st EXCEPT !.tx = p.q]
    IN IF ~p.some
       THEN [a EXCEPT !.pc = "out"]
       ELSE IF a.max_batch = 0
       THEN [a EXCEPT !.pc = "out", !.max_batch = U32(0 - 1), !.err = "EAGAIN"]
       ELSE IF xmit_reserve_fails(a)
       THEN [a EXCEPT !.pc = "out", !.max_batch = @ - 1, !.err = "EAGAIN"]
       ELSE [a EXCEPT !.pc = "reserve", !.max_batch = @ - 1,
                      !.desc = p.e, !.head = a.cq.prod_head]

\* the store of the reservation and the rest of the loop body
xmit_submit(st, mtu, outcome) ==
    LET a == [st EXCEPT !.cq = xskq_reserve_store(@, st.head)]
        id == a.desc.idx
        sent == [a EXCEPT !.inflight[id] = @ + 1]
    IN IF a.desc.len > mtu
       THEN [a EXCEPT !.pc = "out", !.err = "EMSGSIZE"]
       ELSE IF outcome = "alloc_fail"
       THEN [a EXCEPT !.pc = "out", !.err = "EAGAIN", !.faulted = TRUE]
       ELSE IF outcome = "store_fail"
       THEN [a EXCEPT !.pc = "out", !.err = "EFAULT", !.faulted = TRUE]
       ELSE IF outcome \in {"NET_XMIT_DROP", "NETDEV_TX_BUSY"}
       THEN [sent EXCEPT !.pc = "out", !.err = "EAGAIN", !.faulted = TRUE]
       ELSE [sent EXCEPT !.pc = "top", !.sent_frame = TRUE, !.n = @ + 1,
                         !.err = IF outcome = "NET_XMIT_CN" THEN outcome ELSE "0",
                         !.tx = xskq_discard_desc(@)]

\* the answer to the n-th submission of a call: n_ok good ones, then `fault`
OutcomeAt(n, n_ok, fault) == IF n < n_ok THEN "NET_XMIT_SUCCESS" ELSE fault
\* the answers explored: all good, or one other answer at the first or second submission
Scripts == { << 0, "NET_XMIT_SUCCESS" >> } \cup
           ({0, 1} \X (Outcomes \ {"NET_XMIT_SUCCESS"}))

RECURSIVE xmit_loop(_, _, _, _)
xmit_loop(st, mtu, n_ok, fault) ==
    IF st.pc = "out" THEN st
    ELSE IF st.pc = "top" THEN xmit_loop(xmit_top(st), mtu, n_ok, fault)
    ELSE xmit_loop(xmit_submit(st, mtu, OutcomeAt(st.n, n_ok, fault)), mtu, n_ok, fault)

\* the checks without the one of MSG_DONTWAIT
xmit_precheck_wait(s, dontwait) ==
    IF xs[s].dev = NODEV THEN "ENXIO"
    ELSE IF ~netdev[xs[s].dev].up THEN "ENETDOWN"
    ELSE IF tx[s] = NULL THEN "ENOBUFS"
    ELSE "0"

\* xsk_sendmsg's and xsk_generic_xmit's checks before the mutex is taken
xmit_precheck(s, dontwait) ==
    IF xs[s].dev = NODEV THEN "ENXIO"
    ELSE IF ~netdev[xs[s].dev].up THEN "ENETDOWN"
    ELSE IF tx[s] = NULL THEN "ENOBUFS"
    ELSE IF ~dontwait THEN "EOPNOTSUPP"
    ELSE "0"

xsk_generic_xmit(s, n_ok, fault) ==
    xmit_loop(xmit_enter(tx[s], cq[xs[s].umem], inflight[s]),
              netdev[xs[s].dev].mtu, n_ok, fault)

XskSendmsg(s, dontwait, n_ok, fault) ==
    /\ ~xs[s].dead /\ MutexFree(s)
    /\ fault \in {"NET_XMIT_SUCCESS", "NET_XMIT_CN"} \/ faults < MaxFaults
    /\ LET e == xmit_precheck(s, dontwait)
           st == xsk_generic_xmit(s, n_ok, fault)
       IN IF e # "0"
          THEN /\ ret' = [Ret("xsk_sendmsg", s, e) EXCEPT !.dontwait = dontwait]
               /\ UNCHANGED << tx, cq, inflight, faults >>
          ELSE /\ tx' = [tx EXCEPT ![s] = st.tx]
               /\ cq' = [cq EXCEPT ![xs[s].umem] = st.cq]
               /\ inflight' = [inflight EXCEPT ![s] = st.inflight]
               /\ faults' = IF st.faulted THEN faults + 1 ELSE faults
               /\ ret' = [Ret("xsk_sendmsg", s, st.err) EXCEPT !.dontwait = dontwait,
                                                               !.copied = st.n]
    /\ UNCHANGED << xs, rx, umem, fq, netdev, warned, base, app, cvars >>
    /\ UNCHANGED uvars
    /\ UNCHANGED pvars

\* The same call taken one step at a time, for sendmsg calls that run
\* concurrently on sockets sharing a umem: each holds only its own xs->mutex
\* while it works on the umem's completion ring.
XmitIdle == [xmit_enter(NULL, NULL, NoInflight) EXCEPT !.pc = "idle"]
\* the locals of s's call over the current rings
xmit_load(s) == [xmit[s] EXCEPT !.tx = tx[s], !.cq = cq[xs[s].umem],
                                !.inflight = inflight[s]]
xmit_locals(st) == [st EXCEPT !.tx = NULL, !.cq = NULL, !.inflight = NoInflight]

\* entry: the checks, then mutex_lock(&xs->mutex)
XmitLock(s) ==
    /\ ~xs[s].dead /\ MutexFree(s)
    /\ LET e == xmit_precheck(s, TRUE)
       IN IF e # "0"
          THEN /\ ret' = [Ret("xsk_sendmsg", s, e) EXCEPT !.dontwait = TRUE]
               /\ UNCHANGED xmit
          ELSE /\ xmit' = [xmit EXCEPT ![s] =
                              xmit_locals(xmit_enter(tx[s], cq[xs[s].umem], inflight[s]))]
               /\ ret' = InCall
    /\ UNCHANGED << xs, rx, tx, umem, fq, cq, netdev, inflight, warned, faults, base, app, cvars, bnd >>
    /\ UNCHANGED uvars

\* the loop condition up to the load of the completion ring's reservation
XmitTop(s) ==
    /\ xmit[s].pc = "top"
    /\ LET st == xmit_top(xmit_load(s))
       IN /\ tx' = [tx EXCEPT ![s] = st.tx]
          /\ xmit' = [xmit EXCEPT ![s] = xmit_locals(st)]
    /\ ret' = InCall
    /\ UNCHANGED << xs, rx, umem, fq, cq, netdev, inflight, warned, faults, base, app, cvars, bnd >>
    /\ UNCHANGED uvars

\* the store of the reservation and the rest of the loop body
XmitSubmit(s, outcome) ==
    /\ xmit[s].pc = "reserve"
    /\ outcome \in {"NET_XMIT_SUCCESS", "NET_XMIT_CN"} \/ faults < MaxFaults
    /\ LET st == xmit_submit(xmit_load(s), netdev[xs[s].dev].mtu, outcome)
       IN /\ tx' = [tx EXCEPT ![s] = st.tx]
          /\ cq' = [cq EXCEPT ![xs[s].umem] = st.cq]
          /\ inflight' = [inflight EXCEPT ![s] = st.inflight]
          /\ faults' = IF st.faulted THEN faults + 1 ELSE faults
          /\ xmit' = [xmit EXCEPT ![s] = xmit_locals([st EXCEPT !.faulted = FALSE])]
    /\ ret' = InCall
    /\ UNCHANGED << xs, rx, umem, fq, netdev, warned, base, app, cvars, bnd >>
    /\ UNCHANGED uvars

\* out: mutex_unlock(&xs->mutex); return err
XmitUnlock(s) ==
    /\ xmit[s].pc = "out"
    /\ xmit' = [xmit EXCEPT ![s] = XmitIdle]
    /\ ret' = [Ret("xsk_sendmsg", s, xmit[s].err) EXCEPT !.dontwait = TRUE]
    /\ UNCHANGED << xs, rx, tx, umem, fq, cq, netdev, inflight, warned, faults, base, app, cvars, bnd >>
    /\ UNCHANGED uvars

\* the destructor of a submitted transmit buffer
xsk_destruct_skb(c, id) == xskq_produce_id(c, id)

XskDestructSkb(s, id) ==
    /\ inflight[s][id] > 0
    /\ LET r == xsk_destruct_skb(cq[xs[s].umem], id)
       IN /\ cq' = [cq EXCEPT ![xs[s].umem] = r.q]
          /\ warned' = (warned \/ r.err # "0")
    /\ inflight' = [inflight EXCEPT ![s][id] = @ - 1]
    /\ ret' = Ret("xsk_destruct_skb", s, "0")
    /\ UNCHANGED << xs, rx, tx, umem, fq, netdev, faults, base, app, cvars, xmit, bnd >>
    /\ UNCHANGED uvars
    /\ UNCHANGED pvars

(* ----------------------------- bind, release --------------------------- *)
\* no transmit buffer of socket s is in flight
InflightSum0(s) == \A f \in Frames : inflight[s][f] = 0

BndIdle == [pc |-> "idle", dev |-> NODEV, queue_id |-> 0,
            old_dev |-> NODEV, old_queue |-> 0, first |-> "dev"]

\* file descriptors a caller may pass as sxdp_shared_umem_fd: the two sockets,
\* and one that is no socket
NotSockFd == 3
Fds == Socks \cup {NotSockFd}

xdp_umem_validate_queues(u) == fq[u] # NULL /\ cq[u] # NULL

xsk_lookup_xsk_from_fd(fd) == IF fd \in Socks /\ ~xs[fd].dead THEN "0" ELSE "ENOTSOCK"

\* if (sxdp->sxdp_queue_id >= dev->num_rx_queues)
bind_queue_any(dev, qid) == TRUE
bind_queue_ok(dev, qid) == qid < NumRxQueues[dev]

\* xdp_get_umem: one more reference on umem u
xdp_get_umem(u) == [umem EXCEPT ![u].users = @ + 1]
\* xdp_get_umem(umem_xs->umem) in xsk_bind
bind_get_umem(u) == xdp_get_umem(u)

\* the checks of xsk_bind, in the order of the code; dev is NODEV when
\* dev_get_by_index finds no device
bind_err(s, dev, qid, shared, fd) ==
    IF dev = NODEV THEN "ENODEV"
    ELSE IF rx[s] = NULL /\ tx[s] = NULL THEN "EINVAL"
    ELSE IF ~bind_queue_ok(dev, qid) THEN "EINVAL"
    ELSE IF shared
    THEN IF xs[s].umem # NOUMEM THEN "EINVAL"
         ELSE IF xsk_lookup_xsk_from_fd(fd) # "0" THEN xsk_lookup_xsk_from_fd(fd)
         ELSE IF xs[fd].umem = NOUMEM THEN "EBADF"
         ELSE IF xs[fd].dev # dev \/ xs[fd].queue_id # qid THEN "EINVAL"
         ELSE "0"
    ELSE IF xs[s].umem = NOUMEM \/ ~xdp_umem_validate_queues(xs[s].umem) THEN "EINVAL"
    ELSE "0"

\* "Rebind?": the socket is bound, and to another device or queue
bind_is_rebind(x, dev, qid) == x.dev # NODEV /\ (x.dev # dev \/ x.queue_id # qid)

\* xsk_bind up to the first of the two stores xs->dev = dev and
\* xs->queue_id = sxdp_queue_id.  The receive path reads both fields without
\* the mutex, so it can run between the two stores; `first` is the store the
\* build performs first.
XskBind(s, dev, qid, shared, fd, first) ==
    /\ ~xs[s].dead /\ MutexFree(s)
    /\ dev # NODEV => netdev[dev].refcnt < MaxRef
    /\ LET e == bind_err(s, dev, qid, shared, fd)
           x == xs[s]
           u == IF shared THEN xs[fd].umem ELSE x.umem
           got == [netdev EXCEPT ![dev].refcnt = @ + 1]
       IN IF e # "0"
          THEN /\ ret' = Ret("xsk_bind", s, e)
               /\ UNCHANGED << xs, umem, fq, cq, netdev, bnd >>
          ELSE /\ umem' = IF shared THEN bind_get_umem(u) ELSE umem
               /\ fq' = IF shared THEN fq
                        ELSE [fq EXCEPT ![u] = xskq_set_umem(@, umem[u].props)]
               /\ cq' = IF shared THEN cq
                        ELSE [cq EXCEPT ![u] = xskq_set_umem(@, umem[u].props)]
               /\ netdev' = IF bind_is_rebind(x, dev, qid)
                            THEN [got EXCEPT ![x.dev].refcnt = @ - 1]
                            ELSE got
               /\ xs' = [xs EXCEPT ![s].umem = u,
                                   ![s].dev = IF first = "dev" THEN dev ELSE @,
                                   ![s].queue_id = IF first = "dev" THEN @ ELSE qid]
               /\ bnd' = [bnd EXCEPT ![s] =
                             [pc |-> "store", dev |-> dev, queue_id |-> qid,
                              old_dev |-> x.dev, old_queue |-> x.queue_id,
                              first |-> first]]
               /\ ret' = InCall
    /\ UNCHANGED << rx, tx, inflight, warned, faults, base, app, cvars, xmit >>
    /\ UNCHANGED uvars

\* the second store, the props of the socket's own rings, mutex_unlock, return 0
XskBindDone(s) ==
    /\ bnd[s].pc = "store"
    /\ xs' = [xs EXCEPT ![s].dev = bnd[s].dev, ![s].queue_id = bnd[s].queue_id]
    /\ rx' = [rx EXCEPT ![s] = xskq_set_umem(@, umem[xs[s].umem].props)]
    /\ tx' = [tx EXCEPT ![s] = xskq_set_umem(@, umem[xs[s].umem].props)]
    /\ bnd' = [bnd EXCEPT ![s] = BndIdle]
    /\ ret' = Ret("xsk_bind", s, "0")
    /\ UNCHANGED << umem, fq, cq, netdev, inflight, warned, faults, base, app, cvars, xmit >>
    /\ UNCHANGED uvars

\* xdp_put_umem: drop one reference on umem u; the last one destroys the umem
\* and its fill and completion rings
xdp_put_umem(u) ==
    IF u = NOUMEM THEN [umem |-> umem, fq |-> fq, cq |-> cq]
    ELSE IF umem[u].users > 1
    THEN [umem |-> [umem EXCEPT ![u].users = @ - 1], fq |-> fq, cq |-> cq]
    ELSE [umem |-> [umem EXCEPT ![u] = NULL],
          fq |-> [fq EXCEPT ![u] = NULL], cq |-> [cq EXCEPT ![u] = NULL]]

\* xsk_destruct: xskq_destroy(xs->rx); xskq_destroy(xs->tx); xdp_put_umem(xs->umem)
xsk_destruct(x) == xdp_put_umem(x.umem)

\* sock_put(sk) on socket s, whose struct xdp_sock is x by now: the last
\* reference frees the socket through sk->sk_destruct = xsk_destruct.  (Transmit
\* buffers in flight hold the socket as well; no socket is released with
\* buffers in flight here.)
sock_put(s, x) ==
    LET last == sk[s].refcnt = 1 /\ x.dead
        d == xsk_destruct(x)
    IN /\ sk' = [sk EXCEPT ![s].refcnt = @ - 1, ![s].destroyed = last]
       /\ xs' = [xs EXCEPT ![s] = IF last THEN [x EXCEPT !.umem = NOUMEM] ELSE x]
       /\ rx' = IF last THEN [rx EXCEPT ![s] = NULL] ELSE rx
       /\ tx' = IF last THEN [tx EXCEPT ![s] = NULL] ELSE tx
       /\ umem' = IF last THEN d.umem ELSE umem
       /\ fq' = IF last THEN d.fq ELSE fq
       /\ cq' = IF last THEN d.cq ELSE cq

\* xsk_release as one step: synchronize_net with no delivery under way,
\* dev_put, xs->dev = NULL, sock_orphan, sock_put.  The file is closed by
\* then, so no other call on the socket is in progress.
XskRelease(s) ==
    /\ ~xs[s].dead /\ MutexFree(s)
    /\ rel[s].pc = "idle" /\ \A t \in Threads : reg[s][t].pc = "idle"
    /\ \A c \in Cpus : hook[c] = 0
    /\ InflightSum0(s)
    /\ netdev' = IF xs[s].dev # NODEV
                 THEN [netdev EXCEPT ![xs[s].dev].refcnt = @ - 1] ELSE netdev
    /\ sock_put(s, [xs[s] EXCEPT !.dev = NODEV, !.dead = TRUE])
    /\ ret' = Ret("xsk_release", s, "0")
    /\ UNCHANGED << inflight, warned, faults, base, app, hook, rel, reg >>
    /\ UNCHANGED uvars
    /\ UNCHANGED pvars

\* synchronize_net(): the deliveries under way, which it waits for
synchronize_none(h) == {}
synchronize_net(h) == {c \in Cpus : h[c] # 0}

\* xsk_release step by step.  First: up to the call of synchronize_net in
\* __xsk_release, which a socket without a device skips; `old` remembers the
\* deliveries to this socket that were under way when release was entered.
XskReleaseSync(s) ==
    /\ ~xs[s].dead /\ MutexFree(s)
    /\ rel[s].pc = "idle" /\ \A t \in Threads : reg[s][t].pc = "idle"
    /\ InflightSum0(s)
    /\ rel' = [rel EXCEPT ![s].pc = "sync",
                          ![s].wait = IF xs[s].dev # NODEV THEN synchronize_net(hook) ELSE {},
                          ![s].old = {c \in Cpus : hook[c] = s}]
    /\ ret' = InCall
    /\ UNCHANGED << kvars, faults, base, app, sk, hook, reg >>
    /\ UNCHANGED uvars
    /\ UNCHANGED pvars

\* then, when synchronize_net has returned: dev_put, xs->dev = NULL,
\* sock_orphan, sock_put
XskReleaseDone(s) ==
    /\ rel[s].pc = "sync" /\ rel[s].wait = {}
    /\ netdev' = IF xs[s].dev # NODEV
                 THEN [netdev EXCEPT ![xs[s].dev].refcnt = @ - 1] ELSE netdev
    /\ sock_put(s, [xs[s] EXCEPT !.dev = NODEV, !.dead = TRUE])
    /\ rel' = [rel EXCEPT ![s].pc = "idle", ![s].old = {}]
    /\ ret' = Ret("xsk_release", s, "0")
    /\ UNCHANGED << inflight, warned, faults, base, app, hook, reg >>
    /\ UNCHANGED uvars
    /\ UNCHANGED pvars

\* The hook's map.  Removing a socket: the entry is cleared, the deliveries
\* under way are waited for, and the map's reference is put.
XskMapDelete(s) ==
    /\ sk[s].inmap /\ rel[s].mpc = "idle"
    /\ sk' = [sk EXCEPT ![s].inmap = FALSE]
    /\ rel' = [rel EXCEPT ![s].mpc = "sync", ![s].mwait = synchronize_net(hook)]
    /\ ret' = InCall
    /\ UNCHANGED << kvars, faults, base, app, hook, reg >>
    /\ UNCHANGED uvars
    /\ UNCHANGED pvars

XskMapPut(s) ==
    /\ rel[s].mpc = "sync" /\ rel[s].mwait = {}
    /\ sock_put(s, xs[s])
    /\ rel' = [rel EXCEPT ![s].mpc = "idle"]
    /\ ret' = Ret("xsk_map_delete", s, "0")
    /\ UNCHANGED << netdev, inflight, warned, faults, base, app, hook, reg >>
    /\ UNCHANGED uvars
    /\ UNCHANGED pvars

\* A delivery step by step.  The hook on cpu c looks socket s up in its map...
HookLookup(c, s) ==
    /\ hook[c] = 0 /\ CanDeliver(s)
    /\ hook' = [hook EXCEPT ![c] = s]
    /\ ret' = InCall
    /\ UNCHANGED << kvars, faults, base, app, sk, rel, reg >>
    /\ UNCHANGED uvars
    /\ UNCHANGED pvars

\* ... and calls xsk_generic_rcv on it.  On a socket that was freed meanwhile
\* the call works on freed memory, whatever it then does ("UAF").
HookRcv(c, xdp) ==
    /\ hook[c] # 0
    /\ LET s == hook[c]
           r == __xsk_rcv(s, xdp)
       IN IF sk[s].destroyed
          THEN /\ ret' = [Ret("xsk_generic_rcv", s, "UAF") EXCEPT !.arg = xdp]
               /\ UNCHANGED << fq, rx, xs >>
          ELSE /\ fq' = r.fq
               /\ rx' = IF r.err = "0" THEN [r.rx EXCEPT ![s] = xsk_flush(@)] ELSE r.rx
               /\ xs' = [xs EXCEPT ![s] = rcv_account(@, r.err)]
               /\ ret' = [Ret("xsk_generic_rcv", s, r.err) EXCEPT !.arg = xdp, !.id = r.id,
                                                           !.copied = r.copied]
    /\ hook' = [hook EXCEPT ![c] = 0]
    /\ rel' = [t \in Socks |-> [rel[t] EXCEPT !.wait = @ \ {c}, !.old = @ \ {c},
                                              !.mwait = @ \ {c}]]
    /\ UNCHANGED << tx, umem, cq, netdev, inflight, warned, faults, base, app, sk, reg >>
    /\ UNCHANGED uvars
    /\ UNCHANGED pvars

(* ----------------------------- setsockopt ------------------------------ *)
\* n & m on unsigned integers
RECURSIVE BitAnd(_, _)
BitAnd(n, m) == IF n = 0 \/ m = 0 THEN 0
                ELSE 2 * BitAnd(n \div 2, m \div 2) + (IF n % 2 = 1 /\ m % 2 = 1 THEN 1 ELSE 0)
\* is_power_of_2(n): n != 0 && (n & (n - 1)) == 0
is_power_of_2(n) == n # 0 /\ BitAnd(n, n - 1) = 0

\* xsk_init_queue; nomem: xskq_create cannot allocate the ring
xsk_init_queue_again(entries, q, umem_queue, nomem) ==
    IF entries = 0 \/ ~is_power_of_2(entries) THEN [err |-> "EINVAL", q |-> q]
    ELSE IF nomem THEN [err |-> "ENOMEM", q |-> q]
    ELSE [err |-> "0", q |-> xskq_create(entries, umem_queue, base)]
xsk_init_queue(entries, q, umem_queue, nomem) ==
    IF entries = 0 \/ q # NULL \/ ~is_power_of_2(entries) THEN [err |-> "EINVAL", q |-> q]
    ELSE IF nomem THEN [err |-> "ENOMEM", q |-> q]
    ELSE [err |-> "0", q |-> xskq_create(entries, umem_queue, base)]

DataRingOpts == {"XDP_RX_RING", "XDP_TX_RING"}
UmemRingOpts == {"XDP_UMEM_FILL_RING", "XDP_UMEM_COMPLETION_RING"}
RingOpts == DataRingOpts \cup UmemRingOpts
\* capacities a caller may ask for: none, the sample's, one that is no power
\* of two, and twice the sample's
RingEntries == {0, RingSize, RingSize + 1, 2 * RingSize}

\* the ring an option is about, NULL included
TargetRing(s, opt) ==
    IF opt = "XDP_RX_RING" THEN rx[s]
    ELSE IF opt = "XDP_TX_RING" THEN tx[s]
    ELSE IF xs[s].umem = NOUMEM THEN NULL
    ELSE IF opt = "XDP_UMEM_FILL_RING" THEN fq[xs[s].umem]
    ELSE cq[xs[s].umem]

\* xsk_setsockopt, XDP_RX_RING / XDP_TX_RING / XDP_UMEM_FILL_RING /
\* XDP_UMEM_COMPLETION_RING: the ring is created inside xs->mutex
XskSetsockoptRing(s, opt, entries, nomem) ==
    /\ ~xs[s].dead /\ MutexFree(s)
    /\ LET u == xs[s].umem
           r == xsk_init_queue(entries, TargetRing(s, opt), opt \in UmemRingOpts, nomem)
           e == IF opt \in UmemRingOpts /\ u = NOUMEM THEN "EINVAL" ELSE r.err
       IN /\ rx' = IF e = "0" /\ opt = "XDP_RX_RING" THEN [rx EXCEPT ![s] = r.q] ELSE rx
          /\ tx' = IF e = "0" /\ opt = "XDP_TX_RING" THEN [tx EXCEPT ![s] = r.q] ELSE tx
          /\ fq' = IF e = "0" /\ opt = "XDP_UMEM_FILL_RING" THEN [fq EXCEPT ![u] = r.q] ELSE fq
          /\ cq' = IF e = "0" /\ opt = "XDP_UMEM_COMPLETION_RING"
                   THEN [cq EXCEPT ![u] = r.q] ELSE cq
          /\ ret' = [Ret("xsk_setsockopt", s, e) EXCEPT
                         !.arg = [opt |-> opt, entries |-> entries]]
    /\ UNCHANGED << xs, umem, netdev, inflight, warned, faults, base, app, cvars >>
    /\ UNCHANGED uvars
    /\ UNCHANGED pvars

\* xdp_umem_reg: the checks of the registration record
xdp_umem_reg(mr) ==
    IF /\ is_power_of_2(mr.frame_size)
       /\ mr.headroom < mr.frame_size
       /\ mr.len > 0 /\ mr.len % mr.frame_size = 0
    THEN "0" ELSE "EINVAL"

\* registration records a caller may pass: the sample's, and one whose
\* headroom leaves no room in a frame
UmemRegs == {[len |-> NumFrames * FrameSize, frame_size |-> FrameSize, headroom |-> h] :
                 h \in {Headroom, FrameSize}}

\* the umem a registration creates: a struct xdp_umem that is not in use
NewUmem(s) == IF umem[s] = NULL THEN s ELSE CHOOSE u \in Socks : umem[u] = NULL

\* XDP_UMEM_REG inside xs->mutex: xdp_umem_create, xdp_umem_reg, xs->umem = umem
umem_reg_locked(s, mr) ==
    LET e == xdp_umem_reg(mr)
        u == NewUmem(s)
    IN /\ \E v \in Socks : umem[v] = NULL
       /\ IF e # "0"
          THEN UNCHANGED << xs, umem, held >>
          ELSE /\ umem' = [umem EXCEPT ![u] =
                              [props |-> [nframes |-> mr.len \div mr.frame_size,
                                          frame_size |-> mr.frame_size],
                               frame_headroom |-> mr.headroom, users |-> 1]]
               /\ xs' = [xs EXCEPT ![s].umem = u]
               /\ held' = [held EXCEPT ![u] = Frames]
       /\ ret' = Ret("XDP_UMEM_REG", s, e)

\* XDP_UMEM_REG, step by step.  First: if (xs->umem) return -EBUSY, which is
\* read before the mutex is taken ...
XskUmemRegCheck(s, t, mr) ==
    /\ ~xs[s].dead /\ reg[s][t].pc = "idle" /\ rel[s].pc = "idle"
    /\ IF xs[s].umem # NOUMEM
       THEN /\ ret' = Ret("XDP_UMEM_REG", s, "EBUSY")
            /\ UNCHANGED reg
       ELSE /\ reg' = [reg EXCEPT ![s][t] = [pc |-> "lock", mr |-> mr]]
            /\ ret' = InCall
    /\ UNCHANGED << kvars, faults, base, app, sk, hook, rel >>
    /\ UNCHANGED uvars
    /\ UNCHANGED pvars

\* ... then the part inside the mutex
XskUmemRegLocked(s, t) ==
    /\ reg[s][t].pc = "lock" /\ MutexFree(s)
    /\ umem_reg_locked(s, reg[s][t].mr)
    /\ reg' = [reg EXCEPT ![s][t] = RegIdle]
    /\ UNCHANGED << rx, tx, fq, cq, netdev, inflight, warned, faults, base, app, sk, hook, rel >>
    /\ UNCHANGED << ufq, ucq, urx, utx >>
    /\ UNCHANGED pvars

\* XDP_UMEM_REG as one step: a call that no other call on the socket overlaps
XskUmemReg(s, mr) ==
    /\ ~xs[s].dead /\ MutexFree(s)
    /\ rel[s].pc = "idle" /\ \A t \in Threads : reg[s][t].pc = "idle"
    /\ IF xs[s].umem # NOUMEM
       THEN /\ ret' = Ret("XDP_UMEM_REG", s, "EBUSY")
            /\ UNCHANGED << xs, umem, held >>
       ELSE umem_reg_locked(s, mr)
    /\ UNCHANGED << rx, tx, fq, cq, netdev, inflight, warned, faults, base, app, cvars >>
    /\ UNCHANGED << ufq, ucq, urx, utx >>
    /\ UNCHANGED pvars

(* ------------- the user program's use of the ring helpers -------------- *)
\* The user owns a frame from the moment it dequeues its index until it
\* enqueues it again; it donates and sends only frames it holds.
Produced(uq) == U32(uq.cached_prod - base)
ProducedAll == Produced(ufq[1]) + Produced(ufq[2]) + Produced(utx[1]) + Produced(utx[2])

\* donate frame f to the fill ring (xsk_configure, rx_drop, complete_tx_l2fwd)
UserFill(u, f) ==
    /\ fq[u] # NULL /\ f \in held[u]
    /\ ProducedAll < MaxProd
    /\ LET r == umem_fill_to_kernel(ufq[u], fq[u], << f >>, 1)
       IN /\ ufq' = [ufq EXCEPT ![u] = r.uq]
          /\ fq' = [fq EXCEPT ![u] = r.q]
          /\ held' = IF r.ret = "0" THEN [held EXCEPT ![u] = @ \ {f}] ELSE held
          /\ ret' = Ret("umem_fill_to_kernel", u, r.ret)
    /\ UNCHANGED << xs, rx, tx, umem, cq, netdev, inflight, warned >>
    /\ UNCHANGED << ucq, urx, utx, faults, base, app, cvars, xmit, bnd >>

\* put the descriptor {f, len, 0} on the tx ring (l2fwd)
UserTxEnq(s, f, len) ==
    /\ tx[s] # NULL /\ xs[s].umem # NOUMEM /\ f \in held[xs[s].umem]
    /\ ProducedAll < MaxProd
    /\ LET r == xq_enq(utx[s], tx[s], << [idx |-> f, len |-> len, offset |-> 0] >>, 1)
       IN /\ utx' = [utx EXCEPT ![s] = r.uq]
          /\ tx' = [tx EXCEPT ![s] = r.q]
          /\ held' = IF r.ret = "0" THEN [held EXCEPT ![xs[s].umem] = @ \ {f}] ELSE held
          /\ ret' = Ret("xq_enq", s, r.ret)
    /\ UNCHANGED << xs, rx, umem, fq, cq, netdev, inflight, warned >>
    /\ UNCHANGED << ufq, ucq, urx, faults, base, app, cvars, xmit, bnd >>

\* take one descriptor from the rx ring (rx_drop, l2fwd)
UserRxDeq(s) ==
    /\ rx[s] # NULL /\ xs[s].umem # NOUMEM
    /\ LET r == xq_deq(urx[s], rx[s], 1)
       IN /\ r.ret > 0
          /\ urx' = [urx EXCEPT ![s] = r.uq]
          /\ rx' = [rx EXCEPT ![s] = r.q]
          /\ held' = [held EXCEPT ![xs[s].umem] =
                         @ \cup {r.d[i].idx : i \in 1 .. r.ret}]
          /\ ret' = Ret("xq_deq", s, "0")
    /\ UNCHANGED << xs, tx, umem, fq, cq, netdev, inflight, warned >>
    /\ UNCHANGED << ufq, ucq, utx, faults, base, app, cvars, xmit, bnd >>

\* take one index from the completion ring (complete_tx_only, complete_tx_l2fwd)
UserComplete(u) ==
    /\ cq[u] # NULL
    /\ LET r == umem_complete_from_kernel(ucq[u], cq[u], 1)
       IN /\ r.ret > 0
          /\ ucq' = [ucq EXCEPT ![u] = r.uq]
          /\ cq' = [cq EXCEPT ![u] = r.q]
          /\ held' = [held EXCEPT ![u] = @ \cup {r.d[i] : i \in 1 .. r.ret}]
          /\ ret' = Ret("umem_complete_from_kernel", u, "0")
    /\ UNCHANGED << xs, rx, tx, umem, fq, netdev, inflight, warned >>
    /\ UNCHANGED << ufq, urx, utx, faults, base, app, cvars, xmit, bnd >>

(* ------------- the ring helpers with batches of any size -------------- *)
\* The benchmarks call the helpers with batches; here the frame indices are
\* whatever the caller passes (0, 1, ...) and ownership is not tracked.
Batches == 1 .. MaxBatch
BatchIds(nb) == [k \in 1 .. nb |-> k - 1]
BatchDescs(nb) == [k \in 1 .. nb |-> [idx |-> k - 1, len |-> 1, offset |-> 0]]

RingFill(u, nb) ==
    /\ fq[u] # NULL
    /\ ProducedAll + nb <= MaxProd
    /\ LET r == umem_fill_to_kernel(ufq[u], fq[u], BatchIds(nb), nb)
       IN /\ ufq' = [ufq EXCEPT ![u] = r.uq]
          /\ fq' = [fq EXCEPT ![u] = r.q]
          /\ ret' = Ret("umem_fill_to_kernel", u, r.ret)
    /\ UNCHANGED << xs, rx, tx, umem, cq, netdev, inflight, warned >>
    /\ UNCHANGED << held, ucq, urx, utx, faults, base, app, cvars, xmit, bnd >>

RingTxEnq(s, nb) ==
    /\ tx[s] # NULL
    /\ ProducedAll + nb <= MaxProd
    /\ LET r == xq_enq(utx[s], tx[s], BatchDescs(nb), nb)
       IN /\ utx' = [utx EXCEPT ![s] = r.uq]
          /\ tx' = [tx EXCEPT ![s] = r.q]
          /\ ret' = Ret("xq_enq", s, r.ret)
    /\ UNCHANGED << xs, rx, umem, fq, cq, netdev, inflight, warned >>
    /\ UNCHANGED << held, ufq, ucq, urx, faults, base, app, cvars, xmit, bnd >>

RingTxOnly(s, nb) ==
    /\ tx[s] # NULL
    /\ ProducedAll + nb <= MaxProd
    /\ LET r == xq_enq_tx_only(utx[s], tx[s], 0, nb)
       IN /\ utx' = [utx EXCEPT ![s] = r.uq]
          /\ tx' = [tx EXCEPT ![s] = r.q]
          /\ ret' = Ret("xq_enq_tx_only", s, r.ret)
    /\ UNCHANGED << xs, rx, umem, fq, cq, netdev, inflight, warned >>
    /\ UNCHANGED << held, ufq, ucq, urx, faults, base, app, cvars, xmit, bnd >>

RingRxDeq(s, nb) ==
    /\ rx[s] # NULL
    /\ LET r == xq_deq(urx[s], rx[s], nb)
       IN /\ urx' = [urx EXCEPT ![s] = r.uq]
          /\ rx' = [rx EXCEPT ![s] = r.q]
          /\ ret' = [Ret("xq_deq", s, "0") EXCEPT !.copied = r.ret]
    /\ UNCHANGED << xs, tx, umem, fq, cq, netdev, inflight, warned >>
    /\ UNCHANGED << held, ufq, ucq, utx, faults, base, app, cvars, xmit, bnd >>

RingComplete(u, nb) ==
    /\ cq[u] # NULL
    /\ LET r == umem_complete_from_kernel(ucq[u], cq[u], nb)
       IN /\ ucq' = [ucq EXCEPT ![u] = r.uq]
          /\ cq' = [cq EXCEPT ![u] = r.q]
          /\ ret' = [Ret("umem_complete_from_kernel", u, "0") EXCEPT !.copied = r.ret]
    /\ UNCHANGED << xs, rx, tx, umem, fq, netdev, inflight, warned >>
    /\ UNCHANGED << held, ufq, urx, utx, faults, base, app, cvars, xmit, bnd >>

(* ------------------------- the specifications -------------------------- *)
UmemProps == [nframes |-> NumFrames, frame_size |-> FrameSize]

\* a socket as xsk_create leaves it
FreshSock == [dev |-> NODEV, queue_id |-> 0, umem |-> NOUMEM, rx_dropped |-> 0, dead |-> FALSE]

\* the state after xsk_configure(NULL) of the sample: socket 1 has registered
\* umem 1 with its fill and completion rings, created its rx and tx rings and
\* is bound to (d0, 0); socket 2 is created and nothing else
BoundRing(umem_queue, start) ==
    xskq_set_umem(xskq_create(RingSize, umem_queue, start), UmemProps)

InitProg(start, prog) ==
    /\ xs = [s \in Socks |-> IF s = 1 THEN [FreshSock EXCEPT !.dev = "d0", !.umem = 1]
                             ELSE FreshSock]
    /\ rx = [s \in Socks |-> IF s = 1 THEN BoundRing(FALSE, start) ELSE NULL]
    /\ tx = [s \in Socks |-> IF s = 1 THEN BoundRing(FALSE, start) ELSE NULL]
    /\ umem = [u \in Socks |-> IF u = 1
                 THEN [props |-> UmemProps, frame_headroom |-> Headroom, users |-> 1]
                 ELSE NULL]
    /\ fq = [u \in Socks |-> IF u = 1 THEN BoundRing(TRUE, start) ELSE NULL]
    /\ cq = [u \in Socks |-> IF u = 1 THEN BoundRing(TRUE, start) ELSE NULL]
    /\ netdev = [d \in Devs |-> [refcnt |-> IF d = "d0" THEN 1 ELSE 0,
                                 up |-> TRUE, mtu |-> Mtu]]
    /\ inflight = [s \in Socks |-> [f \in Frames |-> 0]]
    /\ warned = FALSE
    /\ held = [u \in Socks |-> IF u = 1 THEN Frames ELSE {}]
    /\ ufq = [u \in Socks |-> uqueue(start)]
    /\ ucq = [u \in Socks |-> uqueue(start)]
    /\ urx = [s \in Socks |-> uqueue(start)]
    /\ utx = [s \in Socks |-> uqueue(start)]
    /\ faults = 0
    /\ base = start
    /\ app = prog
    /\ xmit = [s \in Socks |-> XmitIdle]
    /\ bnd = [s \in Socks |-> BndIdle]
    /\ InitCalls
    /\ ret = Ret("init", 0, "0")

InitBound(start) == InitProg(start, AppIdle)

Init == InitBound(0)

\* the user takes its frames in order
LowestHeld(u) == {f \in held[u] : \A g \in held[u] : f <= g}

\* the receive side: hook deliveries, and the user feeding the fill ring and
\* draining the rx ring
RxNext ==
    \/ \E s \in Socks, xdp \in XdpBuffs : XskRcv(s, xdp)
    \/ \E s \in Socks : XskFlush(s)
    \/ \E s \in Socks, xdp \in XdpBuffs : XskGenericRcv(s, xdp)
    \/ \E u \in Socks : \E f \in LowestHeld(u) : UserFill(u, f)
    \/ \E s \in Socks : UserRxDeq(s)

\* the transmit side: sendmsg, the transmit buffers' destructors, and the user
\* feeding the tx ring and draining the completion ring
TxNext ==
    \/ \E s \in Socks, sc \in Scripts : XskSendmsg(s, TRUE, sc[1], sc[2])
    \/ \E s \in Socks : XskSendmsg(s, FALSE, 0, "NET_XMIT_SUCCESS")
    \/ \E s \in Socks, id \in Frames : XskDestructSkb(s, id)
    \/ \E s \in Socks, f \in LowestHeld(1), len \in TxLens : UserTxEnq(s, f, len)
    \/ \E u \in Socks : UserComplete(u)

Next == RxNext \/ TxNext

\* the whole data path of one bound socket
Spec == Init /\ [][Next]_vars
\* its receive side and its transmit side, each explored exhaustively
SpecRx == Init /\ [][RxNext]_vars
SpecTx == Init /\ [][TxNext]_vars

\* two sockets that share umem 1, both bound to (d0, 0): socket 2 has a tx
\* ring of its own and was bound with XDP_SHARED_UMEM
InitShared ==
    /\ xs = [s \in Socks |-> [FreshSock EXCEPT !.dev = "d0", !.umem = 1]]
    /\ rx = [s \in Socks |-> IF s = 1 THEN BoundRing(FALSE, 0) ELSE NULL]
    /\ tx = [s \in Socks |-> BoundRing(FALSE, 0)]
    /\ umem = [u \in Socks |-> IF u = 1
                 THEN [props |-> UmemProps, frame_headroom |-> Headroom, users |-> 2]
                 ELSE NULL]
    /\ fq = [u \in Socks |-> IF u = 1 THEN BoundRing(TRUE, 0) ELSE NULL]
    /\ cq = [u \in Socks |-> IF u = 1 THEN BoundRing(TRUE, 0) ELSE NULL]
    /\ netdev = [d \in Devs |-> [refcnt |-> IF d = "d0" THEN 2 ELSE 0,
                                 up |-> TRUE, mtu |-> Mtu]]
    /\ inflight = [s \in Socks |-> NoInflight]
    /\ warned = FALSE
    /\ held = [u \in Socks |-> IF u = 1 THEN Frames ELSE {}]
    /\ ufq = [u \in Socks |-> uqueue(0)]
    /\ ucq = [u \in Socks |-> uqueue(0)]
    /\ urx = [s \in Socks |-> uqueue(0)]
    /\ utx = [s \in Socks |-> uqueue(0)]
    /\ faults = 0
    /\ base = 0
    /\ app = AppIdle
    /\ xmit = [s \in Socks |-> XmitIdle]
    /\ bnd = [s \in Socks |-> BndIdle]
    /\ InitCalls
    /\ ret = Ret("init", 0, "0")

\* sendmsg calls of the two sockets running concurrently, every submission
\* accepted by the device
RaceNext ==
    \/ \E s \in Socks : XmitLock(s)
    \/ \E s \in Socks : XmitTop(s)
    \/ \E s \in Socks : XmitSubmit(s, "NET_XMIT_SUCCESS")
    \/ \E s \in Socks : XmitUnlock(s)
    \/ \E s \in Socks, id \in Frames : XskDestructSkb(s, id)
    \/ \E s \in Socks, f \in LowestHeld(1) : UserTxEnq(s, f, 1)
    \/ \E u \in Socks : UserComplete(u)

SpecRace == InitShared /\ [][RaceNext]_vars

\* the rings of the bound socket, their counters one step before the
\* wrap-around, driven by the user's helpers with batches and by the kernel
RingBuff == [dev |-> "d0", queue |-> 0, len |-> 1]

RingNext ==
    \/ \E nb \in Batches : RingFill(1, nb)
    \/ \E nb \in Batches : RingTxEnq(1, nb)
    \/ \E nb \in Batches : RingTxOnly(1, nb)
    \/ \E nb \in Batches : RingRxDeq(1, nb)
    \/ \E nb \in Batches : RingComplete(1, nb)
    \/ XskGenericRcv(1, RingBuff)
    \/ XskSendmsg(1, TRUE, 0, "NET_XMIT_SUCCESS")
    \/ \E id \in Frames : XskDestructSkb(1, id)

InitRing == InitBound(UMod - 1)

SpecRing == InitRing /\ [][RingNext]_vars

\* the control path: socket 1 has registered umem 1 with its fill and
\* completion rings and created its rx ring, and the user has donated frame 0;
\* socket 2 has created its rx ring; neither is bound yet, and the hook's map
\* holds both
InitCtl ==
    /\ xs = [s \in Socks |-> IF s = 1 THEN [FreshSock EXCEPT !.umem = 1] ELSE FreshSock]
    /\ rx = [s \in Socks |-> xskq_create(RingSize, FALSE, 0)]
    /\ tx = [s \in Socks |-> NULL]
    /\ umem = [u \in Socks |-> IF u = 1
                 THEN [props |-> UmemProps, frame_headroom |-> Headroom, users |-> 1]
                 ELSE NULL]
    /\ fq = [u \in Socks |-> IF u = 1
               THEN umem_fill_to_kernel(uqueue(0), xskq_create(RingSize, TRUE, 0),
                                        << 0 >>, 1).q
               ELSE NULL]
    /\ cq = [u \in Socks |-> IF u = 1 THEN xskq_create(RingSize, TRUE, 0) ELSE NULL]
    /\ netdev = [d \in Devs |-> [refcnt |-> 0, up |-> TRUE, mtu |-> Mtu]]
    /\ inflight = [s \in Socks |-> NoInflight]
    /\ warned = FALSE
    /\ held = [u \in Socks |-> IF u = 1 THEN Frames \ {0} ELSE {}]
    /\ ufq = [u \in Socks |-> IF u = 1
                THEN umem_fill_to_kernel(uqueue(0), xskq_create(RingSize, TRUE, 0),
                                         << 0 >>, 1).uq
                ELSE uqueue(0)]
    /\ ucq = [u \in Socks |-> uqueue(0)]
    /\ urx = [s \in Socks |-> uqueue(0)]
    /\ utx = [s \in Socks |-> uqueue(0)]
    /\ faults = 0
    /\ base = 0
    /\ app = AppIdle
    /\ xmit = [s \in Socks |-> XmitIdle]
    /\ bnd = [s \in Socks |-> BndIdle]
    /\ InitCalls
    /\ ret = Ret("init", 0, "0")

\* buffers of one length from every queue of every device
CtlBuffs == {b \in [dev : Devs, queue : Queues, len : {1}] : TRUE}

CtlNext ==
    \/ \E s \in Socks, dev \in Devs \cup {NODEV}, qid \in Queues \cup {2},
          first \in {"dev", "queue"} :
            XskBind(s, dev, qid, FALSE, NotSockFd, first)
    \/ \E s \in Socks, dev \in Devs, qid \in Queues, fd \in Fds,
          first \in {"dev", "queue"} :
            XskBind(s, dev, qid, TRUE, fd, first)
    \/ \E s \in Socks : XskBindDone(s)
    \/ \E s \in Socks : XskRelease(s)
    \/ \E s \in Socks, xdp \in CtlBuffs : XskGenericRcv(s, xdp)

SpecCtl == InitCtl /\ [][CtlNext]_vars

\* one socket with a tx ring and a completion ring that take more than
\* TX_BATCH_SIZE entries; the user has queued n descriptors of length 1: one,
\* or a batch less one, a batch, a batch and one, a batch and two
BatchRing == 2 ^ BatchOrder
BatchQueued == {1} \cup ((TX_BATCH_SIZE - 1) .. (TX_BATCH_SIZE + 2))
BatchTx(n) ==
    [BoundRing(FALSE, 0) EXCEPT
        !.nentries = BatchRing,
        !.desc = [i \in 0 .. (BatchRing - 1) |->
                     IF i < n THEN [idx |-> i % NumFrames, len |-> 1, offset |-> 0]
                     ELSE ZeroDesc],
        !.producer = n]
BatchCq == [BoundRing(TRUE, 0) EXCEPT !.nentries = BatchRing,
                                      !.desc = [i \in 0 .. (BatchRing - 1) |-> 0]]
BatchUq(prod) == [uqueue(0) EXCEPT !.cached_prod = prod, !.mask = BatchRing - 1,
                                   !.size = BatchRing]

InitBatch ==
    \E n \in BatchQueued :
        /\ xs = [s \in Socks |-> IF s = 1 THEN [FreshSock EXCEPT !.dev = "d0", !.umem = 1]
                                 ELSE FreshSock]
        /\ rx = [s \in Socks |-> NULL]
        /\ tx = [s \in Socks |-> IF s = 1 THEN BatchTx(n) ELSE NULL]
        /\ umem = [u \in Socks |-> IF u = 1
                     THEN [props |-> UmemProps, frame_headroom |-> Headroom, users |-> 1]
                     ELSE NULL]
        /\ fq = [u \in Socks |-> IF u = 1 THEN BoundRing(TRUE, 0) ELSE NULL]
        /\ cq = [u \in Socks |-> IF u = 1 THEN BatchCq ELSE NULL]
        /\ netdev = [d \in Devs |-> [refcnt |-> IF d = "d0" THEN 1 ELSE 0,
                                     up |-> TRUE, mtu |-> Mtu]]
        /\ inflight = [s \in Socks |-> NoInflight]
        /\ warned = FALSE
        /\ held = [u \in Socks |-> {}]
        /\ ufq = [u \in Socks |-> uqueue(0)]
        /\ ucq = [u \in Socks |-> IF u = 1 THEN BatchUq(0) ELSE uqueue(0)]
        /\ urx = [s \in Socks |-> uqueue(0)]
        /\ utx = [s \in Socks |-> IF s = 1 THEN BatchUq(n) ELSE uqueue(0)]
        /\ faults = 0
        /\ base = 0
        /\ app = AppIdle
        /\ xmit = [s \in Socks |-> XmitIdle]
        /\ bnd = [s \in Socks |-> BndIdle]
        /\ InitCalls
        /\ ret = Ret("init", 0, "0")

\* the device releases the transmit buffers of a socket in the order of their frames
LowestInflight(s) == {f \in Frames : inflight[s][f] > 0 /\ \A g \in Frames : inflight[s][g] > 0 => f <= g}

\* the device takes every buffer, or answers NET_XMIT_CN to every one, or drops
\* the second of a call
BatchScripts == {<< 0, "NET_XMIT_SUCCESS" >>, << 0, "NET_XMIT_CN" >>, << 1, "NET_XMIT_DROP" >>}

BatchNext ==
    \/ \E sc \in BatchScripts : XskSendmsg(1, TRUE, sc[1], sc[2])
    \/ \E id \in LowestInflight(1) : XskDestructSkb(1, id)
    \/ RingComplete(1, MaxBatch)

SpecBatch == InitBatch /\ [][BatchNext]_vars

\* release and removal from the hook's map of the bound socket, step by step,
\* against deliveries that are under way
RelNext ==
    \/ \E s \in Socks : XskReleaseSync(s)
    \/ \E s \in Socks : XskReleaseDone(s)
    \/ \E s \in Socks : XskMapDelete(s)
    \/ \E s \in Socks : XskMapPut(s)
    \/ \E c \in Cpus, s \in Socks : HookLookup(c, s)
    \/ \E c \in Cpus, xdp \in CtlBuffs : HookRcv(c, xdp)
    \/ \E u \in Socks : \E f \in LowestHeld(u) : UserFill(u, f)
    \/ \E s \in Socks : UserRxDeq(s)

SpecRel == Init /\ [][RelNext]_vars

\* two sockets as xsk_create leaves them; no umem, no ring, no binding
InitFresh ==
    /\ xs = [s \in Socks |-> FreshSock]
    /\ rx = [s \in Socks |-> NULL]
    /\ tx = [s \in Socks |-> NULL]
    /\ umem = [u \in Socks |-> NULL]
    /\ fq = [u \in Socks |-> NULL]
    /\ cq = [u \in Socks |-> NULL]
    /\ netdev = [d \in Devs |-> [refcnt |-> 0, up |-> TRUE, mtu |-> Mtu]]
    /\ inflight = [s \in Socks |-> NoInflight]
    /\ warned = FALSE
    /\ held = [u \in Socks |-> {}]
    /\ ufq = [u \in Socks |-> uqueue(0)]
    /\ ucq = [u \in Socks |-> uqueue(0)]
    /\ urx = [s \in Socks |-> uqueue(0)]
    /\ utx = [s \in Socks |-> uqueue(0)]
    /\ faults = 0
    /\ base = 0
    /\ app = AppIdle
    /\ xmit = [s \in Socks |-> XmitIdle]
    /\ bnd = [s \in Socks |-> BndIdle]
    /\ InitCalls
    /\ ret = Ret("init", 0, "0")

\* socket 1 asks for every ring, socket 2 for an rx ring and a fill ring
CfgOpts(s) == IF s = 1 THEN RingOpts ELSE {"XDP_RX_RING", "XDP_UMEM_FILL_RING"}

\* the configuration calls of two sockets, from creation to release; the calls
\* on one socket follow one another, the calls on different sockets interleave
CfgNext ==
    \/ \E s \in Socks, mr \in UmemRegs : XskUmemReg(s, mr)
    \/ \E s \in Socks : \E opt \in CfgOpts(s) : XskSetsockoptRing(s, opt, RingSize, FALSE)
    \/ \E s \in Socks, dev \in {"d0", NODEV}, qid \in {0, 2} :
          XskBind(s, dev, qid, FALSE, NotSockFd, "dev")
    \/ \E s \in Socks, fd \in Fds : XskBind(s, "d0", 0, TRUE, fd, "dev")
    \/ \E s \in Socks : XskBindDone(s)
    \/ \E s \in Socks : XskRelease(s)

SpecCfg == InitFresh /\ [][CfgNext]_vars

\* the interface of device d goes down or comes up (IFF_UP)
DevChange(d) ==
    /\ netdev' = [netdev EXCEPT ![d].up = ~@]
    /\ ret' = Ret("dev_change", 0, "0")
    /\ UNCHANGED << xs, rx, tx, umem, fq, cq, inflight, warned, faults, base, app, cvars >>
    /\ UNCHANGED uvars
    /\ UNCHANGED pvars

\* socket 1 is bound to (d0, 0) with a tx ring; socket 2 is either bound to
\* (d0, 0) on the same umem with an rx ring and no tx ring, or has a umem and
\* a tx ring of its own and is not bound
InitSend ==
    \E bound2 \in BOOLEAN :
        /\ xs = [s \in Socks |-> IF s = 1 \/ bound2
                                 THEN [FreshSock EXCEPT !.dev = "d0", !.umem = 1]
                                 ELSE [FreshSock EXCEPT !.umem = 2]]
        /\ rx = [s \in Socks |-> IF s = 1 \/ bound2 THEN BoundRing(FALSE, 0) ELSE NULL]
        /\ tx = [s \in Socks |-> IF s = 1 THEN BoundRing(FALSE, 0)
                                 ELSE IF bound2 THEN NULL
                                 ELSE xskq_create(RingSize, FALSE, 0)]
        /\ umem = [u \in Socks |->
                     IF u = 1 THEN [props |-> UmemProps, frame_headroom |-> Headroom,
                                    users |-> IF bound2 THEN 2 ELSE 1]
                     ELSE IF bound2 THEN NULL
                     ELSE [props |-> UmemProps, frame_headroom |-> Headroom, users |-> 1]]
        /\ fq = [u \in Socks |-> IF u = 1 THEN BoundRing(TRUE, 0)
                                 ELSE IF bound2 THEN NULL
                                 ELSE xskq_create(RingSize, TRUE, 0)]
        /\ cq = [u \in Socks |-> IF u = 1 THEN BoundRing(TRUE, 0)
                                 ELSE IF bound2 THEN NULL
                                 ELSE xskq_create(RingSize, TRUE, 0)]
        /\ netdev = [d \in Devs |-> [refcnt |-> IF d = "d1" THEN 0
                                                 ELSE IF bound2 THEN 2 ELSE 1,
                                     up |-> TRUE, mtu |-> Mtu]]
        /\ inflight = [s \in Socks |-> NoInflight]
        /\ warned = FALSE
        /\ held = [u \in Socks |-> IF u = 1 \/ ~bound2 THEN Frames ELSE {}]
        /\ ufq = [u \in Socks |-> uqueue(0)]
        /\ ucq = [u \in Socks |-> uqueue(0)]
        /\ urx = [s \in Socks |-> uqueue(0)]
        /\ utx = [s \in Socks |-> uqueue(0)]
        /\ faults = 0
        /\ base = 0
        /\ app = AppIdle
        /\ xmit = [s \in Socks |-> XmitIdle]
        /\ bnd = [s \in Socks |-> BndIdle]
        /\ InitCalls
        /\ ret = Ret("init", 0, "0")

\* the frames the user of socket s takes next
NextFrames(s) == IF xs[s].umem = NOUMEM THEN {} ELSE LowestHeld(xs[s].umem)

\* blocking and non-blocking sendmsg calls on both sockets while the user
\* queues descriptors and the interface goes down and up
SendNext ==
    \/ \E s \in Socks, dontwait \in BOOLEAN, sc \in BatchScripts :
          XskSendmsg(s, dontwait, sc[1], sc[2])
    \/ \E s \in Socks, id \in Frames : XskDestructSkb(s, id)
    \/ \E s \in Socks : \E f \in NextFrames(s) : UserTxEnq(s, f, 1)
    \/ \E u \in Socks : UserComplete(u)
    \/ DevChange("d0")

SpecSend == InitSend /\ [][SendNext]_vars

\* the calls that register a umem and create rings, with every capacity a
\* caller may ask for (socket 2: the sample's) and with and without memory
\* for the ring
OptEntries(s) == IF s = 1 THEN RingEntries ELSE {RingSize}
OptNext ==
    \/ \E s \in Socks, mr \in UmemRegs : XskUmemReg(s, mr)
    \/ \E s \in Socks : \E opt \in CfgOpts(s), n \in OptEntries(s), nomem \in BOOLEAN :
          XskSetsockoptRing(s, opt, n, nomem)
    \/ \E s \in Socks : XskRelease(s)

SpecOpt == InitFresh /\ [][OptNext]_vars

\* XDP_UMEM_REG calls of two threads on each socket, and the umem's rings
RegNext ==
    \/ \E s \in Socks, t \in Threads, mr \in UmemRegs : XskUmemRegCheck(s, t, mr)
    \/ \E s \in Socks, t \in Threads : XskUmemRegLocked(s, t)
    \/ \E s \in Socks, opt \in UmemRingOpts : XskSetsockoptRing(s, opt, RingSize, FALSE)
    \/ \E s \in Socks : XskRelease(s)

SpecReg == InitFresh /\ [][RegNext]_vars

(* ------------------- the sample's benchmark loops ---------------------- *)
\* NUM_DESCS, the size of the sample's four rings, and the frames
\* xsk_configure donates to the fill ring: 0 .. NUM_DESCS / 2 - 1
NumDescs == 2 * RingSize
Donated == NumDescs \div 2

AppRing(umem_queue) == xskq_set_umem(xskq_create(NumDescs, umem_queue, 0), UmemProps)
AppUqueue == [cached_prod |-> 0, cached_cons |-> 0, mask |-> NumDescs - 1, size |-> NumDescs]

\* for (i = 0; i < NUM_DESCS / 2; i++) lassert(umem_fill_to_kernel(&fq, &i, 1) == 0)
RECURSIVE Donate(_, _)
Donate(r, i) ==
    IF i = Donated THEN r
    ELSE Donate(umem_fill_to_kernel(r.uq, r.q, << i >>, 1), i + 1)

\* the state after xsk_configure(NULL): rings of NUM_DESCS entries, the fill
\* ring holding the donated frames, the socket bound to (d0, 0); the program
\* is about to enter the loop `bench`
InitApp(bench) ==
    LET d == Donate([uq |-> AppUqueue, q |-> AppRing(TRUE), ret |-> "0"], 0)
    IN /\ xs = [s \in Socks |-> IF s = 1 THEN [FreshSock EXCEPT !.dev = "d0", !.umem = 1]
                                ELSE FreshSock]
       /\ rx = [s \in Socks |-> IF s = 1 THEN AppRing(FALSE) ELSE NULL]
       /\ tx = [s \in Socks |-> IF s = 1 THEN AppRing(FALSE) ELSE NULL]
       /\ umem = [u \in Socks |-> IF u = 1
                    THEN [props |-> UmemProps, frame_headroom |-> Headroom, users |-> 1]
                    ELSE NULL]
       /\ fq = [u \in Socks |-> IF u = 1 THEN d.q ELSE NULL]
       /\ cq = [u \in Socks |-> IF u = 1 THEN AppRing(TRUE) ELSE NULL]
       /\ netdev = [dv \in Devs |-> [refcnt |-> IF dv = "d0" THEN 1 ELSE 0,
                                     up |-> TRUE, mtu |-> Mtu]]
       /\ inflight = [s \in Socks |-> [f \in Frames |-> 0]]
       /\ warned = FALSE
       /\ held = [u \in Socks |-> {}]
       /\ ufq = [u \in Socks |-> IF u = 1 THEN d.uq ELSE AppUqueue]
       /\ ucq = [u \in Socks |-> AppUqueue]
       /\ urx = [s \in Socks |-> AppUqueue]
       /\ utx = [s \in Socks |-> AppUqueue]
       /\ faults = 0
       /\ base = 0
       /\ app = [AppIdle EXCEPT !.pc = bench]
       /\ xmit = [s \in Socks |-> XmitIdle]
       /\ bnd = [s \in Socks |-> BndIdle]
       /\ InitCalls
       /\ ret = Ret("init", 0, "0")

\* lassert(idx < NUM_FRAMES) over a batch of descriptors
FramesOk(d) == \A i \in DOMAIN d : d[i].idx < NumFrames

\* rx_drop up to its loop over the batch: rcvd = xq_deq(&xsk->rx, descs,
\* BATCH_SIZE); if (!rcvd) return; lassert(idx < NUM_FRAMES) for each
RxDropDeq ==
    /\ app.pc = "rx_drop" /\ ~app.failed
    /\ Produced(ufq[1]) + MaxBatch <= MaxLoop
    /\ LET r == xq_deq(urx[1], rx[1], MaxBatch)
       IN /\ urx' = [urx EXCEPT ![1] = r.uq]
          /\ rx' = [rx EXCEPT ![1] = r.q]
          /\ app' = IF r.ret = 0 THEN app
                    ELSE [app EXCEPT !.pc = "refill", !.descs = r.d,
                                     !.failed = ~FramesOk(r.d)]
          /\ ret' = [Ret("xq_deq", 1, "0") EXCEPT !.copied = r.ret]
    /\ UNCHANGED << xs, tx, umem, fq, cq, netdev, inflight, warned >>
    /\ UNCHANGED << held, ufq, ucq, utx, faults, base, cvars, xmit, bnd >>

\* the end of rx_drop: umem_fill_to_kernel_ex(&xsk->umem->fq, descs, rcvd),
\* its return value dropped, and the batch forgotten
RxDropFill ==
    /\ app.pc = "refill" /\ ~app.failed
    /\ LET r == umem_fill_to_kernel_ex(ufq[1], fq[1], app.descs, Len(app.descs))
       IN /\ ufq' = [ufq EXCEPT ![1] = r.uq]
          /\ fq' = [fq EXCEPT ![1] = r.q]
          /\ ret' = [Ret("umem_fill_to_kernel_ex", 1, r.ret) EXCEPT !.copied = Len(app.descs)]
    /\ app' = [app EXCEPT !.pc = "rx_drop", !.descs = << >>]
    /\ UNCHANGED << xs, rx, tx, umem, cq, netdev, inflight, warned >>
    /\ UNCHANGED << held, ucq, urx, utx, faults, base, cvars, xmit, bnd >>

\* the rxdrop benchmark: the kernel delivers through either receive path,
\* the user runs rx_drop
DropNext ==
    \/ \E xdp \in XdpBuffs : XskRcv(1, xdp)
    \/ XskFlush(1)
    \/ \E xdp \in XdpBuffs : XskGenericRcv(1, xdp)
    \/ RxDropDeq
    \/ RxDropFill

SpecDrop == InitApp("rx_drop") /\ [][DropNext]_vars

\* the answers of the device to the submissions of one kick explored in the
\* l2fwd loop: all taken, or the first one dropped
Kicks == { << 0, "NET_XMIT_SUCCESS" >>, << 0, "NET_XMIT_DROP" >> }

\* kick_tx: sendto(fd, NULL, 0, MSG_DONTWAIT, NULL, 0) may fail with ENOBUFS
\* or EAGAIN only
kick_ok(err) == err \in {"0", "NET_XMIT_CN", "ENOBUFS", "EAGAIN"}

\* l2fwd's inner loop, first half: complete_tx_l2fwd up to kick_tx.  With
\* nothing outstanding it returns at once and xq_deq is next.
L2Kick(n_ok, fault) ==
    /\ app.pc = "complete" /\ ~app.failed
    /\ fault = "NET_XMIT_SUCCESS" \/ faults <= NumDescs - Donated
    /\ IF app.outstanding_tx = 0
       THEN /\ app' = [app EXCEPT !.pc = "deq"]
            /\ ret' = Ret("complete_tx_l2fwd", 1, "0")
            /\ UNCHANGED << tx, cq, inflight, faults >>
       ELSE LET e == xmit_precheck(1, TRUE)
                st == xsk_generic_xmit(1, n_ok, fault)
                err == IF e # "0" THEN e ELSE st.err
            IN /\ tx' = IF e # "0" THEN tx ELSE [tx EXCEPT ![1] = st.tx]
               /\ cq' = IF e # "0" THEN cq ELSE [cq EXCEPT ![1] = st.cq]
               /\ inflight' = IF e # "0" THEN inflight
                              ELSE [inflight EXCEPT ![1] = st.inflight]
               /\ faults' = IF e = "0" /\ st.faulted THEN faults + 1 ELSE faults
               /\ app' = [app EXCEPT !.pc = "reap", !.failed = ~kick_ok(err)]
               /\ ret' = [Ret("xsk_sendmsg", 1, err) EXCEPT !.dontwait = TRUE]
    /\ UNCHANGED << xs, rx, umem, fq, netdev, warned, base, cvars >>
    /\ UNCHANGED uvars
    /\ UNCHANGED pvars

\* the rest of complete_tx_l2fwd: reap min(outstanding_tx, BATCH_SIZE)
\* completions and give their frames to the fill ring, the result of
\* umem_fill_to_kernel dropped
L2Reap ==
    /\ app.pc = "reap" /\ ~app.failed
    /\ LET ndescs == IF app.outstanding_tx > MaxBatch THEN MaxBatch ELSE app.outstanding_tx
           r == umem_complete_from_kernel(ucq[1], cq[1], ndescs)
           f == umem_fill_to_kernel(ufq[1], fq[1], r.d, r.ret)
       IN /\ ucq' = [ucq EXCEPT ![1] = r.uq]
          /\ cq' = [cq EXCEPT ![1] = r.q]
          /\ ufq' = IF r.ret > 0 THEN [ufq EXCEPT ![1] = f.uq] ELSE ufq
          /\ fq' = IF r.ret > 0 THEN [fq EXCEPT ![1] = f.q] ELSE fq
          /\ app' = [app EXCEPT !.pc = "deq", !.outstanding_tx = @ - r.ret]
          /\ ret' = [Ret("complete_tx_l2fwd", 1, IF r.ret > 0 THEN f.ret ELSE "0")
                        EXCEPT !.copied = r.ret]
    /\ UNCHANGED << xs, rx, tx, umem, netdev, inflight, warned >>
    /\ UNCHANGED << held, urx, utx, faults, base, cvars, xmit, bnd >>

\* rcvd = xq_deq(&xsk->rx, descs, BATCH_SIZE); if (rcvd > 0) break;
L2Deq ==
    /\ app.pc = "deq" /\ ~app.failed
    /\ Produced(utx[1]) + MaxBatch <= MaxLoop
    /\ LET r == xq_deq(urx[1], rx[1], MaxBatch)
       IN /\ urx' = [urx EXCEPT ![1] = r.uq]
          /\ rx' = [rx EXCEPT ![1] = r.q]
          /\ app' = IF r.ret = 0 THEN [app EXCEPT !.pc = "complete"]
                    ELSE [app EXCEPT !.pc = "enq", !.descs = r.d]
          /\ ret' = [Ret("xq_deq", 1, "0") EXCEPT !.copied = r.ret]
    /\ UNCHANGED << xs, tx, umem, fq, cq, netdev, inflight, warned >>
    /\ UNCHANGED << held, ufq, ucq, utx, faults, base, cvars, xmit, bnd >>

\* ret = xq_enq(&xsk->tx, descs, rcvd); lassert(ret == 0);
\* xsk->outstanding_tx += rcvd
L2Enq ==
    /\ app.pc = "enq" /\ ~app.failed
    /\ LET r == xq_enq(utx[1], tx[1], app.descs, Len(app.descs))
       IN /\ utx' = [utx EXCEPT ![1] = r.uq]
          /\ tx' = [tx EXCEPT ![1] = r.q]
          /\ app' = IF r.ret # "0" THEN [app EXCEPT !.failed = TRUE]
                    ELSE [app EXCEPT !.pc = "complete", !.descs = << >>,
                                     !.outstanding_tx = @ + Len(app.descs)]
          /\ ret' = [Ret("xq_enq", 1, r.ret) EXCEPT !.copied = Len(app.descs)]
    /\ UNCHANGED << xs, rx, umem, fq, cq, netdev, inflight, warned >>
    /\ UNCHANGED << held, ufq, ucq, urx, faults, base, cvars, xmit, bnd >>

\* the l2fwd benchmark: the kernel receives and completes, the user forwards
L2Buff == [dev |-> "d0", queue |-> 0, len |-> 1]

L2Next ==
    \/ XskGenericRcv(1, L2Buff)
    \/ \E id \in Frames : XskDestructSkb(1, id)
    \/ \E k \in Kicks : L2Kick(k[1], k[2])
    \/ L2Reap
    \/ L2Deq
    \/ L2Enq

SpecL2fwd == InitApp("complete") /\ [][L2Next]_vars

(* ---------- the helpers one memory access at a time (fill, rx) --------- *)
\* u_smp_wmb() and u_smp_rmb() are barrier(), a compiler barrier: the
\* accesses are issued in program order, and the CPU of a weakly ordered
\* build may perform them in another order.  A helper's stores wait in
\* app.stores until they reach memory; an xq_deq call keeps in app.deq what
\* it has loaded so far.
SlotStore(pos, val) == [kind |-> "slot", pos |-> pos, val |-> val]
ProducerStore(val) == [kind |-> "producer", pos |-> val, val |-> val]

\* the stores umem_fill_to_kernel issues: desc[cached_prod++ & mask] = d[i]
\* for each i, then ptrs.producer = cached_prod
FillStores(uq, r, nb) ==
    [k \in 1 .. nb |-> SlotStore(U32(uq.cached_prod + k - 1),
                                 r.q.desc[U32(uq.cached_prod + k - 1) % (uq.mask + 1)])]
    \o << ProducerStore(r.q.producer) >>

\* sequence s without its i-th element
Without(s, i) == SubSeq(s, 1, i - 1) \o SubSeq(s, i + 1, Len(s))

OrderIdle == app.pc = "order" /\ app.stores = << >> /\ app.deq.pc = "idle"

\* umem_fill_to_kernel(&fq, d, nb) up to its return: the check of the free
\* slots, and the stores issued
FillIssue(nb) ==
    /\ OrderIdle
    /\ ProducedAll + nb <= MaxProd
    /\ LET r == umem_fill_to_kernel(ufq[1], fq[1], BatchIds(nb), nb)
       IN /\ ufq' = [ufq EXCEPT ![1] = r.uq]
          /\ app' = IF r.ret = "0"
                    THEN [app EXCEPT !.stores = FillStores(ufq[1], r, nb)]
                    ELSE app
          /\ ret' = Ret("umem_fill_to_kernel", 1, r.ret)
    /\ UNCHANGED << xs, rx, tx, umem, fq, cq, netdev, inflight, warned >>
    /\ UNCHANGED << held, ucq, urx, utx, faults, base, cvars, xmit, bnd >>

\* the i-th of the issued stores reaches memory; i = 1 is program order
FillCommit(i) ==
    /\ app.pc = "order" /\ i \in DOMAIN app.stores
    /\ LET st == app.stores[i]
       IN fq' = [fq EXCEPT ![1] =
                    IF st.kind = "slot" THEN [@ EXCEPT !.desc[Slot(@, st.pos)] = st.val]
                    ELSE [@ EXCEPT !.producer = st.val]]
    /\ app' = [app EXCEPT !.stores = Without(@, i)]
    /\ ret' = InCall
    /\ UNCHANGED << xs, rx, tx, umem, cq, netdev, inflight, warned >>
    /\ UNCHANGED << held, ufq, ucq, urx, utx, faults, base, cvars, xmit, bnd >>

\* xq_deq(&rx, descs, ndescs) is entered
DeqCall(nb) ==
    /\ OrderIdle
    /\ app' = [app EXCEPT !.deq = [DeqIdle EXCEPT !.pc = "run", !.nb = nb,
                                                  !.start = urx[1].cached_cons]]
    /\ ret' = InCall
    /\ UNCHANGED << kvars, uvars, faults, base, cvars, pvars >>

\* entries = xq_nb_avail(uq, ndescs): the load of ptrs.producer
DeqLoadProducer ==
    /\ app.deq.pc = "run" /\ ~app.deq.known
    /\ LET a == xq_nb_avail(urx[1], rx[1], app.deq.nb)
       IN /\ urx' = [urx EXCEPT ![1] = a.uq]
          /\ app' = [app EXCEPT !.deq.known = TRUE, !.deq.n = a.n]
    /\ ret' = InCall
    /\ UNCHANGED << kvars, held, ufq, ucq, utx, faults, base, cvars, pvars >>

\* the position of the call's i-th slot is between the shared counters
Covered(q, pos) == U32(pos - q.consumer) < U32(q.producer - q.consumer)

\* descs[i] = r->desc[cached_cons++ & mask]: the load of slot i.  In program
\* order it follows the load of the producer counter and the loads of the
\* slots before it.
DeqLoadSlot(i) ==
    /\ app.deq.pc = "run" /\ i \in 0 .. (app.deq.nb - 1) /\ i \notin DOMAIN app.deq.got
    /\ app.deq.known => i < app.deq.n
    /\ LET pos == U32(app.deq.start + i)
       IN app' = [app EXCEPT !.deq.got = (i :> [d |-> rx[1].desc[Slot(rx[1], pos)],
                                               covered |-> Covered(rx[1], pos)]) @@ @]
    /\ ret' = InCall
    /\ UNCHANGED << kvars, uvars, faults, base, cvars, pvars >>

\* the slots of the call that are to be returned and not loaded yet
Unread(dq) == IF dq.pc = "run" /\ dq.known
              THEN {i \in 0 .. (dq.n - 1) : i \notin DOMAIN dq.got} ELSE {}

\* if (entries > 0) r->ptrs.consumer = uq->cached_cons: the store reaches memory
DeqStoreConsumer ==
    /\ app.deq.pc = "run" /\ app.deq.known /\ app.deq.n > 0 /\ ~app.deq.pub
    /\ rx' = [rx EXCEPT ![1].consumer = U32(app.deq.start + app.deq.n)]
    /\ app' = [app EXCEPT !.deq.pub = TRUE]
    /\ ret' = InCall
    /\ UNCHANGED << xs, tx, umem, fq, cq, netdev, inflight, warned >>
    /\ UNCHANGED << uvars, faults, base, cvars, pvars >>

\* return entries
DeqReturn ==
    /\ app.deq.pc = "run" /\ app.deq.known /\ Unread(app.deq) = {}
    /\ app.deq.n > 0 => app.deq.pub
    /\ urx' = [urx EXCEPT ![1].cached_cons = U32(app.deq.start + app.deq.n)]
    /\ app' = [app EXCEPT !.deq = DeqIdle,
                          !.descs = [k \in 1 .. app.deq.n |-> app.deq.got[k - 1].d]]
    /\ ret' = [Ret("xq_deq", 1, "0") EXCEPT !.copied = app.deq.n]
    /\ UNCHANGED << kvars, held, ufq, ucq, utx, faults, base, cvars, pvars >>

\* the fill and rx rings between the user's helpers and the kernel's receive
\* path, the counters starting one below the wrap-around
OrderNext ==
    \/ \E nb \in Batches : FillIssue(nb)
    \/ \E i \in 1 .. (MaxBatch + 1) : FillCommit(i)
    \/ \E nb \in Batches : DeqCall(nb)
    \/ DeqLoadProducer
    \/ \E i \in 0 .. (MaxBatch - 1) : DeqLoadSlot(i)
    \/ DeqStoreConsumer
    \/ DeqReturn
    \/ XskRcv(1, RingBuff)
    \/ XskFlush(1)

InitOrder == InitProg(UMod - 1, [AppIdle EXCEPT !.pc = "order"])

SpecOrder == InitOrder /\ [][OrderNext]_vars

(* ------------------------ what the rings hold -------------------------- *)
RingSeq(q, from, to) ==
    IF q = NULL THEN << >>
    ELSE [k \in 1 .. U32(to - from) |-> q.desc[Slot(q, U32(from + k - 1))]]
\* the fill ring as its consumer (the kernel) sees it
FillSeq(u) == IF fq[u] = NULL THEN << >> ELSE RingSeq(fq[u], fq[u].consumer, fq[u].producer)
\* the rx ring: what the kernel has written, published or not, and the user has not taken
RxSeq(s) == IF rx[s] = NULL THEN << >> ELSE RingSeq(rx[s], rx[s].consumer, rx[s].prod_head)
TxSeq(s) == IF tx[s] = NULL THEN << >> ELSE RingSeq(tx[s], tx[s].consumer, tx[s].producer)
CqSeq(u) == IF cq[u] = NULL THEN << >> ELSE RingSeq(cq[u], cq[u].consumer, cq[u].producer)
Range(f) == {f[i] : i \in DOMAIN f}

RcvOps == {"xsk_rcv", "xsk_generic_rcv"}
\* the buffer of the last rx call carried the (device, queue) the socket is bound to
RcvMatched(s) == ret.arg.dev = xs[s].dev /\ ret.arg.queue = xs[s].queue_id

(* ------------------------------- claims -------------------------------- *)
\* C4: a successful rx call consumes the head index i of the umem's fill ring
\* and appends the descriptor {i, length of the buffer, headroom} to the rx
\* ring: the fill ring loses exactly its head, the rx ring gains exactly that
\* one descriptor, and the frames the user holds are untouched.
C4_RcvMovesOneFrame ==
    [][\A s \in Socks :
         (ret'.op \in RcvOps /\ ret'.sock = s /\ ret'.err = "0") =>
            LET u == xs[s].umem
            IN /\ Len(FillSeq(u)) >= 1
               /\ FillSeq(u)' = Tail(FillSeq(u))
               /\ RxSeq(s)' = Append(RxSeq(s),
                                     [idx |-> Head(FillSeq(u)), len |-> ret'.arg.len,
                                      offset |-> umem[u].frame_headroom])
               /\ Len(FillSeq(u)') + Len(RxSeq(s)') = Len(FillSeq(u)) + Len(RxSeq(s))
               /\ held' = held]_vars

\* a successful rx call has moved a frame: the rx ring holds a descriptor
C4_Witness ==
    /\ ret.op \in RcvOps /\ ret.err = "0"
    /\ Len(RxSeq(ret.sock)) = 2 /\ Len(FillSeq(1)) = 1
    /\ RxSeq(ret.sock)[2].offset = Headroom

\* the rx ring has no slot left for the kernel to write
RxFull(s) == xskq_nb_free(rx[s], rx[s].prod_head) = 0

\* C5: an rx call that finds the rx ring full fails with ENOSPC (nospace),
\* leaves the fill ring (consumer counter and contents) and the rx ring as
\* they were, and adds one to rx_dropped.
C5_RxFullKeepsFill ==
    [][\A s \in Socks :
         (ret'.op \in RcvOps /\ ret'.sock = s /\ RxFull(s)
            /\ ret'.arg.dev = xs[s].dev /\ ret'.arg.queue = xs[s].queue_id) =>
            /\ ret'.err = "ENOSPC"
            /\ fq' = fq
            /\ rx' = rx
            /\ xs'[s].rx_dropped = xs[s].rx_dropped + 1]_vars

\* an rx call failed on a full rx ring while the fill ring still held an index
C5_Witness ==
    /\ ret.op \in RcvOps /\ ret.err = "ENOSPC" /\ RcvMatched(ret.sock)
    /\ RxFull(ret.sock)
    /\ Len(FillSeq(xs[ret.sock].umem)) >= 1
    /\ xs[ret.sock].rx_dropped = 1

\* C6: an rx call whose buffer is longer than frame_size - headroom is
\* dropped: it returns an error, adds one to rx_dropped, produces no
\* descriptor, writes no byte into a frame and does not consume the fill ring.
C6_OversizeDropped ==
    [][\A s \in Socks :
         (ret'.op \in RcvOps /\ ret'.sock = s
            /\ ret'.arg.dev = xs[s].dev /\ ret'.arg.queue = xs[s].queue_id
            /\ ret'.arg.len > xdp_umem_room(umem[xs[s].umem])) =>
            /\ ret'.err # "0"
            /\ xs'[s].rx_dropped = xs[s].rx_dropped + 1
            /\ rx' = rx
            /\ fq' = fq
            /\ ret'.copied = 0]_vars

\* the bindings a socket can be said to have: its (device, queue), or, while
\* a bind call is between its two stores, the one before the call and the one
\* asked for
Bindings(s) ==
    IF bnd[s].pc = "idle" THEN {<< xs[s].dev, xs[s].queue_id >>}
    ELSE {<< bnd[s].old_dev, bnd[s].old_queue >>, << bnd[s].dev, bnd[s].queue_id >>}

\* C7: an rx call is accepted only for a buffer of the (device, queue) the
\* socket is bound to: for an unbound or released socket, for any other
\* (device, queue), and after a rebind for the previous one, it fails with
\* EINVAL and leaves the fill ring and the rx ring alone.  While a bind call is
\* in progress the binding is the one before the call or the one asked for.
C7_OnlyBoundQueue ==
    [][\A s \in Socks :
         (ret'.op \in RcvOps /\ ret'.sock = s
            /\ << ret'.arg.dev, ret'.arg.queue >> \notin Bindings(s)) =>
            /\ ret'.err = "EINVAL"
            /\ fq' = fq
            /\ rx' = rx]_vars

UmemSocks(u) == {s \in Socks : xs[s].umem = u}
FillSet(u) == Range(FillSeq(u))
RxSet(u) == UNION {{d.idx : d \in Range(RxSeq(s))} : s \in UmemSocks(u)}
TxSet(u) == UNION {{d.idx : d \in Range(TxSeq(s))} : s \in UmemSocks(u)}
InflightSet(u) == {f \in Frames : \E s \in UmemSocks(u) : inflight[s][f] > 0}
CqSet(u) == Range(CqSeq(u))
Count(seq, v) == Cardinality({i \in DOMAIN seq : seq[i] = v})
TxIdx(s) == [i \in DOMAIN TxSeq(s) |-> TxSeq(s)[i].idx]

\* C1: every frame of a umem is in at most one place: on the fill ring, on an
\* rx ring, on a tx ring or in flight in the device, on the completion ring,
\* or with the user; in particular no frame is with the user while the kernel
\* still has it.
C1_SingleOwner ==
    \A u \in Socks :
        LET places == << FillSet(u), RxSet(u), TxSet(u) \cup InflightSet(u),
                         CqSet(u), held[u] >>
        IN \A i, j \in DOMAIN places : i < j => places[i] \cap places[j] = {}

\* a ring that exists holds between 0 and nentries entries, counted modulo 2^w
RingInRange(q) == q = NULL \/ U32(q.producer - q.consumer) <= q.nentries

\* C2: on every ring (fill, completion, rx, tx) the shared counters satisfy
\* 0 <= producer - consumer <= capacity in unsigned wrap-around arithmetic,
\* whatever the interleaving of the user's producers (xq_enq, xq_enq_tx_only,
\* umem_fill_to_kernel) and consumers with the kernel, also after the
\* counters have wrapped.
C2_RingCountersInRange ==
    \A i \in Socks :
        RingInRange(fq[i]) /\ RingInRange(cq[i]) /\ RingInRange(rx[i]) /\ RingInRange(tx[i])

\* the tx ring is full across the wrap: its producer counter has wrapped, its
\* consumer counter has not, after a batch enqueue
C2_Witness ==
    /\ ret.op \in {"xq_enq", "xq_enq_tx_only"} /\ ret.err = "0"
    /\ tx[1].producer < tx[1].consumer
    /\ U32(tx[1].producer - tx[1].consumer) = tx[1].nentries

\* C3: the destructor's produce on the completion ring never fails: every
\* destructor of a submitted transmit buffer finds a free slot, also when two
\* sockets that share a umem send at the same time.
C3_DestructorFindsSlot == ~warned

\* C9: a descriptor on the tx ring leaves it exactly once and gets exactly one
\* completion: a frame whose descriptor is still on the tx ring is neither on
\* the completion ring nor back with the user, and no frame has more than one
\* completion published or pending.
C9_OneCompletionPerDescriptor ==
    \A s \in Socks : \A f \in Frames :
        LET u == xs[s].umem
        IN u # NOUMEM =>
           /\ Count(TxIdx(s), f) >= 1 => (Count(CqSeq(u), f) = 0 /\ f \notin held[u])
           /\ Count(CqSeq(u), f) + inflight[s][f] <= 1

\* completion-ring slots that can still be reserved
CqFree(u) == xskq_nb_free(cq[u], cq[u].prod_head)

\* C10: a non-blocking sendmsg that meets a head descriptor longer than the
\* device MTU fails with EMSGSIZE, leaves the descriptor on the tx ring
\* (consumer not advanced) and leaves the completion ring as it was: neither
\* the producer counter nor the number of slots that can still be reserved.
C10_MsgsizeLeavesRings ==
    [][\A s \in Socks :
         (/\ ret'.op = "xsk_sendmsg" /\ ret'.sock = s /\ ret'.dontwait
          /\ xmit_precheck(s, TRUE) = "0"
          /\ Len(TxSeq(s)) >= 1
          /\ Head(TxSeq(s)).len > netdev[xs[s].dev].mtu) =>
            LET u == xs[s].umem
            IN /\ ret'.err = "EMSGSIZE"
               /\ tx'[s].consumer = tx[s].consumer
               /\ TxSeq(s)' = TxSeq(s)
               /\ cq'[u].producer = cq[u].producer
               /\ CqFree(u)' = CqFree(u)]_vars

\* transmit buffers of socket s that were submitted and not yet destructed
RECURSIVE SumOver(_, _)
SumOver(f, S) == IF S = {} THEN 0
                 ELSE LET x == CHOOSE y \in S : TRUE IN f[x] + SumOver(f, S \ {x})
InflightSum(s) == SumOver(inflight[s], Frames)

\* a non-blocking sendmsg of socket s that passes the checks before the loop
SendRuns(s) ==
    ret'.op = "xsk_sendmsg" /\ ret'.sock = s /\ ret'.dontwait /\ xmit_precheck(s, TRUE) = "0"

SendOk == {"0", "NET_XMIT_CN"}

\* C12: one sendmsg call submits at most TX_BATCH_SIZE = 16 transmit buffers.
\* A call that is stopped neither by the device or the allocator nor by the
\* completion ring empties a tx ring of up to 16 descriptors (16 included) and
\* returns success; with more than 16 queued it submits exactly 16, leaves the
\* others on the tx ring and returns EAGAIN.
C12_BatchOfSixteen ==
    [][\A s \in Socks :
         SendRuns(s) =>
            LET u == xs[s].umem
                n == Len(TxSeq(s))
                sub == InflightSum(s)' - InflightSum(s)
                want == IF n <= TX_BATCH_SIZE THEN n ELSE TX_BATCH_SIZE
            IN /\ sub <= TX_BATCH_SIZE
               /\ ret'.copied <= sub
               /\ (faults' = faults /\ CqFree(u) >= want) =>
                     /\ sub = want
                     /\ ret'.copied = want
                     /\ TxSeq(s)' = SubSeq(TxSeq(s), want + 1, n)
                     /\ IF n <= TX_BATCH_SIZE THEN ret'.err \in SendOk
                        ELSE ret'.err = "EAGAIN"]_vars

\* exactly 16 descriptors were queued and one call submitted all of them
C12_Witness ==
    /\ ret.op = "xsk_sendmsg" /\ ret.err = "0" /\ ret.copied = TX_BATCH_SIZE
    /\ TxSeq(ret.sock) = << >>
    /\ tx[ret.sock].consumer = TX_BATCH_SIZE
    /\ InflightSum(ret.sock) = TX_BATCH_SIZE

\* C13: release quiesces first and frees second.  The device reference is
\* dropped only when every delivery to the socket that was under way when
\* release was entered has finished; the socket (its rx and tx rings, its umem reference)
\* is destroyed only after it was released, with no delivery left that holds
\* it; and no delivery ever works on a destroyed socket.
C13_QuiesceThenFree ==
    [][\A s \in Socks :
         /\ (ret'.op = "xsk_release" /\ ret'.sock = s /\ xs[s].dev # NODEV) =>
               rel[s].old = {}
         /\ (sk'[s].destroyed /\ ~sk[s].destroyed) =>
               /\ xs'[s].dead /\ xs'[s].dev = NODEV
               /\ rel[s].old = {}
               /\ \A c \in Cpus : hook[c] # s
         /\ ret'.err # "UAF"]_vars

\* release has returned while a delivery that looked the socket up after
\* release was entered is still under way: the socket is dead, its device
\* reference is gone, and it is not destroyed
C13_Witness ==
    \E s \in Socks, c \in Cpus :
        /\ ret.op = "xsk_release" /\ ret.sock = s
        /\ hook[c] = s
        /\ xs[s].dead /\ xs[s].dev = NODEV /\ netdev["d0"].refcnt = 0
        /\ ~sk[s].destroyed /\ rx[s] # NULL

\* a step that ends a XDP_UMEM_REG call on socket s
RegEnds(s) == ret'.op = "XDP_UMEM_REG" /\ ret'.sock = s
\* the sockets whose umem field refers to umem u
Holders(u) == {s \in Socks : xs[s].umem = u}

\* C14: a umem is registered on a socket exactly once.  A XDP_UMEM_REG call
\* succeeds only on a socket that has no umem when the call stores its own;
\* a call on a socket that has one fails with EBUSY and leaves the socket's
\* umem as it was; no umem is left that no socket refers to.
C14_RegisteredOnce ==
    [][\A s \in Socks :
          /\ RegEnds(s) /\ xs[s].umem # NOUMEM =>
                /\ ret'.err = "EBUSY"
                /\ xs'[s].umem = xs[s].umem
                /\ umem'[xs[s].umem] = umem[xs[s].umem]
          /\ umem'[s] # NULL => Holders(s)' # {}]_vars

\* socket s is bound and no bind on it is between its two stores
Bound(s) == xs[s].dev # NODEV /\ bnd[s].pc = "idle"

\* C15: all bound sockets that hold the same umem are bound to the same
\* (device, queue).  A bind that adopts the umem of another socket succeeds
\* only if that socket has the umem and is bound to the (device, queue) asked
\* for, and after every step any two bound holders of one umem have the same
\* device and the same queue id.
C15_HoldersOnOneQueue ==
    [][/\ \A s \in Socks :
             (xs[s].umem = NOUMEM /\ xs'[s].umem # NOUMEM /\ bnd'[s].pc = "store") =>
                \E o \in Socks \ {s} :
                    /\ xs[o].umem = xs'[s].umem
                    /\ xs[o].dev = bnd'[s].dev /\ xs[o].queue_id = bnd'[s].queue_id
       /\ \A s \in Socks, o \in Socks :
             (Bound(s)' /\ Bound(o)' /\ xs'[s].umem # NOUMEM /\ xs'[s].umem = xs'[o].umem) =>
                xs'[s].dev = xs'[o].dev /\ xs'[s].queue_id = xs'[o].queue_id]_vars

\* the device socket s holds a reference on: the one it is bound to, or the
\* one its bind has taken while the bind is between its two stores
RefDev(s) == IF bnd[s].pc = "store" THEN bnd[s].dev ELSE xs[s].dev

\* C16: a socket holds exactly one reference on the device it is bound to and
\* none on any other device: every device's reference count is the number of
\* sockets bound to it, and is back at its initial value, 0, once every
\* socket is released.
C16_OneDeviceReference ==
    \A d \in Devs : netdev[d].refcnt = Cardinality({s \in Socks : RefDev(s) = d})

\* C17: a umem's reference count equals the number of sockets whose umem field
\* refers to it, so a umem exists exactly as long as some socket refers to it:
\* it is never destroyed while a socket refers to it, and it is destroyed with
\* the last socket that does.
C17_UsersCountHolders ==
    /\ \A u \in Socks : umem[u] # NULL =>
          /\ umem[u].users = Cardinality(Holders(u))
          /\ umem[u].users >= 1
    /\ \A s \in Socks : xs[s].umem # NOUMEM => umem[xs[s].umem] # NULL

\* a step that ends a bind call on socket s with an error
BindFails(s) == ret'.op = "xsk_bind" /\ ret'.sock = s /\ ret'.err # "0"

\* C18: a bind to an existing device fails with EINVAL when the socket has
\* neither an rx nor a tx ring, when the queue id is not below the device's
\* number of rx queues, or, without XDP_SHARED_UMEM, when the socket has no
\* umem or its umem lacks the fill ring or the completion ring; and a bind
\* that fails leaves the socket's device, queue id and umem, every ring and
\* its props, every umem and every device reference as they were.
C18_FailedBindChangesNothing ==
    [][/\ \A s \in Socks, dev \in Devs, qid \in Queues \cup {2}, shared \in BOOLEAN,
             fd \in Fds \cup {NotSockFd} :
             (/\ XskBind(s, dev, qid, shared, fd, "dev")
              /\ \/ rx[s] = NULL /\ tx[s] = NULL
                 \/ qid >= NumRxQueues[dev]
                 \/ ~shared /\ xs[s].umem = NOUMEM
                 \/ ~shared /\ xs[s].umem # NOUMEM
                            /\ (fq[xs[s].umem] = NULL \/ cq[xs[s].umem] = NULL))
             => BindFails(s) /\ ret'.err = "EINVAL"
       /\ \A s \in Socks : BindFails(s) =>
             /\ xs' = xs /\ rx' = rx /\ tx' = tx
             /\ umem' = umem /\ fq' = fq /\ cq' = cq
             /\ netdev' = netdev]_vars

\* a bound socket with rings and a umem has called bind again, the call has
\* failed with EINVAL, and the socket is bound as before
C18_Witness ==
    \E s \in Socks :
        /\ ret.op = "xsk_bind" /\ ret.sock = s /\ ret.err = "EINVAL"
        /\ Bound(s) /\ rx[s] # NULL /\ xs[s].umem # NOUMEM
        /\ netdev[xs[s].dev].refcnt = Cardinality({o \in Socks : xs[o].dev = xs[s].dev})

\* ring q, if it exists before and after a step, has kept its capacity
SameCapacity(q, r) == (q # NULL /\ r # NULL) => r.nentries = q.nentries

\* C19: a call that creates a ring (XDP_RX_RING, XDP_TX_RING,
\* XDP_UMEM_FILL_RING, XDP_UMEM_COMPLETION_RING) succeeds only if the capacity
\* asked for is a nonzero power of two, the ring does not exist yet and, for
\* the fill and the completion ring, the socket has a umem; it then creates
\* that ring with that capacity.  A rejected call leaves every ring and every
\* umem unchanged, and no step changes the capacity of an existing ring.
C19_RingCreatedOnce ==
    [][\A s \in Socks :
          /\ (ret'.op = "xsk_setsockopt" /\ ret'.sock = s) =>
                LET opt == ret'.arg.opt
                    n == ret'.arg.entries
                    made == IF opt = "XDP_RX_RING" THEN rx'[s]
                            ELSE IF opt = "XDP_TX_RING" THEN tx'[s]
                            ELSE IF xs[s].umem = NOUMEM THEN NULL
                            ELSE IF opt = "XDP_UMEM_FILL_RING" THEN fq'[xs[s].umem]
                            ELSE cq'[xs[s].umem]
                IN /\ ret'.err = "0" =>
                         /\ n # 0 /\ \E k \in 0 .. 30 : n = 2 ^ k
                         /\ TargetRing(s, opt) = NULL
                         /\ opt \in UmemRingOpts => xs[s].umem # NOUMEM
                         /\ made # NULL /\ made.nentries = n
                   /\ ret'.err # "0" =>
                         rx' = rx /\ tx' = tx /\ fq' = fq /\ cq' = cq /\ umem' = umem
          /\ SameCapacity(rx[s], rx'[s]) /\ SameCapacity(tx[s], tx'[s])
          /\ SameCapacity(fq[s], fq'[s]) /\ SameCapacity(cq[s], cq'[s])]_vars

\* a socket has all four rings, not all of one capacity, and its last call,
\* for one more ring, was rejected
C19_Witness ==
    \E s \in Socks :
        /\ ret.op = "xsk_setsockopt" /\ ret.sock = s /\ ret.err = "EINVAL"
        /\ xs[s].umem # NOUMEM
        /\ rx[s] # NULL /\ tx[s] # NULL
        /\ fq[xs[s].umem] # NULL /\ cq[xs[s].umem] # NULL
        /\ rx[s].nentries # tx[s].nentries
        /\ fq[xs[s].umem].nentries # cq[xs[s].umem].nentries

\* the errors of the conditions under which sendmsg on socket s rejects a
\* call whose MSG_DONTWAIT flag is dontwait
Rejections(s, dontwait) ==
    (IF dontwait THEN {} ELSE {"EOPNOTSUPP"})
    \cup (IF tx[s] = NULL THEN {"ENOBUFS"} ELSE {})
    \cup (IF xs[s].dev = NODEV THEN {"ENXIO"} ELSE {})
    \cup (IF xs[s].dev # NODEV /\ ~netdev[xs[s].dev].up THEN {"ENETDOWN"} ELSE {})

\* C20: sendmsg rejects a blocking call with EOPNOTSUPP, a call on a socket
\* without tx ring with ENOBUFS, on an unbound socket with ENXIO and on a
\* socket whose interface is down with ENETDOWN (with several of these at
\* once, with the error of one of them), and a rejected call consumes no
\* descriptor, reserves no completion slot and submits no frame: the tx
\* rings, the completion rings and the frames in flight are as before.
C20_RejectedSendTouchesNothing ==
    [][\A s \in Socks :
          (ret'.op = "xsk_sendmsg" /\ ret'.sock = s /\ Rejections(s, ret'.dontwait) # {}) =>
             /\ ret'.err \in Rejections(s, ret'.dontwait)
             /\ tx' = tx /\ cq' = cq /\ inflight' = inflight
             /\ ret'.copied = 0 /\ faults' = faults]_vars

\* a blocking sendmsg was rejected on a bound socket with descriptors on its
\* tx ring, free completion slots and the interface up
C20_Witness ==
    \E s \in Socks :
        /\ ret.op = "xsk_sendmsg" /\ ret.sock = s /\ ~ret.dontwait
        /\ ret.err = "EOPNOTSUPP"
        /\ Len(TxSeq(s)) > 0 /\ CqFree(xs[s].umem) > 0

\* completion-ring slots of umem u that are reserved and not yet published
CqReserved(u) == U32(cq[u].prod_head - cq[u].producer)

\* C25: completion-ring reservations never leak.  With no sendmsg call in
\* progress, the slots of a completion ring that are reserved and not yet
\* published are as many as the transmit buffers of the sockets on that umem
\* that were submitted and whose destructor has not run; an iteration that
\* reserved a slot and left without submitting a buffer gave the slot back.
C25_ReservationsMatchInflight ==
    \A u \in DOMAIN cq :
        (cq[u] # NULL /\ \A s \in Holders(u) : xmit[s].pc = "idle") =>
            CqReserved(u) = SumOver([s \in Socks |-> IF s \in Holders(u) THEN InflightSum(s) ELSE 0], Socks)

\* entries of ring q between its shared consumer and producer counters
Outstanding(q) == U32(q.producer - q.consumer)
\* ring r is ring q after the sequence d was appended at q's producer counter
Appended(q, r, d) ==
    /\ r.producer = U32(q.producer + Len(d))
    /\ r.consumer = q.consumer
    /\ RingSeq(r, r.consumer, r.producer) = RingSeq(q, q.consumer, q.producer) \o d

\* C22: a ring of capacity N takes exactly N outstanding entries.  A call of
\* umem_fill_to_kernel or xq_enq with nb entries succeeds if and only if nb
\* slots are free by the ring's shared consumer counter at the call, and
\* then appends the nb entries; otherwise it returns ENOSPC and the ring,
\* slots and producer counter, is as before.  One more entry on a ring with
\* N outstanding is refused.
C22_ExactCapacity ==
    [][\A nb \in Batches :
          /\ RingFill(1, nb) =>
                IF nb <= fq[1].nentries - Outstanding(fq[1])
                THEN ret'.err = "0" /\ Appended(fq[1], fq'[1], BatchIds(nb))
                ELSE ret'.err = "ENOSPC" /\ fq' = fq
          /\ RingTxEnq(1, nb) =>
                IF nb <= tx[1].nentries - Outstanding(tx[1])
                THEN ret'.err = "0" /\ Appended(tx[1], tx'[1], BatchDescs(nb))
                ELSE ret'.err = "ENOSPC" /\ tx' = tx]_vars

\* the fill ring holds N entries, its producer counter has wrapped around,
\* and the last call, umem_fill_to_kernel, was refused
C22_Witness ==
    /\ ret.op = "umem_fill_to_kernel" /\ ret.err = "ENOSPC"
    /\ Outstanding(fq[1]) = fq[1].nentries
    /\ fq[1].producer < base

\* the entries of ring q that its consumer has not taken
Pending(q) == RingSeq(q, q.consumer, q.producer)
\* sequence t is sequence s without its first n entries
Dropped(s, t, n) == n <= Len(s) /\ t = SubSeq(s, n + 1, Len(s))
\* from ring q to ring r entries leave at the head and arrive at the tail
\* only: what q held and r's consumer has not passed is in r, in q's order,
\* before everything that arrived
Fifo(q, r) ==
    LET taken == U32(r.consumer - q.consumer)
        left == Len(Pending(q)) - taken
    IN /\ taken <= Len(Pending(q))
       /\ Len(Pending(r)) = left + U32(r.producer - q.producer)
       /\ SubSeq(Pending(r), 1, left) = SubSeq(Pending(q), taken + 1, Len(Pending(q)))

\* C23: each ring is FIFO and lossless.  In every step the entries a ring
\* holds leave at its head and arrive at its tail only; xq_enq, the kernel's
\* receive and the transmit buffers' destructor append exactly what they
\* were given; xq_deq and umem_complete_from_kernel return exactly the
\* entries they remove from the head, in order, and the kernel takes the
\* frame it fills from the head of the fill ring; for batches of any size
\* and across the counters' wrap-around.
C23_FifoLossless ==
    [][/\ Fifo(rx[1], rx'[1]) /\ Fifo(tx[1], tx'[1])
       /\ Fifo(fq[1], fq'[1]) /\ Fifo(cq[1], cq'[1])
       /\ \A nb \in Batches :
             /\ RingTxEnq(1, nb) /\ ret'.err = "0" =>
                    Pending(tx'[1]) = Pending(tx[1]) \o BatchDescs(nb)
             /\ RingFill(1, nb) /\ ret'.err = "0" =>
                    Pending(fq'[1]) = Pending(fq[1]) \o BatchIds(nb)
             /\ RingRxDeq(1, nb) =>
                    /\ xq_deq(urx[1], rx[1], nb).d = SubSeq(Pending(rx[1]), 1, ret'.copied)
                    /\ Dropped(Pending(rx[1]), Pending(rx'[1]), ret'.copied)
             /\ RingComplete(1, nb) =>
                    /\ umem_complete_from_kernel(ucq[1], cq[1], nb).d
                           = SubSeq(Pending(cq[1]), 1, ret'.copied)
                    /\ Dropped(Pending(cq[1]), Pending(cq'[1]), ret'.copied)
       /\ (ret'.op = "xsk_generic_rcv" /\ ret'.err = "0") =>
             /\ Pending(rx'[1]) = Pending(rx[1]) \o
                    << [idx |-> Head(Pending(fq[1])), len |-> ret'.arg.len,
                        offset |-> umem[1].frame_headroom] >>
             /\ Dropped(Pending(fq[1]), Pending(fq'[1]), 1)
       /\ \A id \in Frames :
             XskDestructSkb(1, id) => Pending(cq'[1]) = Pending(cq[1]) \o << id >>]_vars

\* the user took a batch of two different entries from the rx ring in one
\* xq_deq, from slots on both sides of the counters' wrap-around
C23_Witness ==
    /\ ret.op = "xq_deq" /\ ret.copied = 2
    /\ rx[1].consumer < base
    /\ rx[1].desc[0].idx # rx[1].desc[1].idx

\* the descriptors of n generated packets in the frames idx, idx + 1, ...
TxOnlyFrames(idx, n) == [k \in 1 .. n |-> [idx |-> idx + k - 1, len |-> PktLen, offset |-> 0]]

\* C26: a call xq_enq_tx_only(uq, idx, n) that succeeds appends n tx
\* descriptors whose frame indices are idx, idx + 1, ..., idx + n - 1, each
\* with the generated packet's length and offset 0 (here idx = 0), so that
\* no frame index is on the tx ring twice.
C26_TxOnlyFrameIndices ==
    [][\A nb \in Batches :
          (RingTxOnly(1, nb) /\ ret'.err = "0") =>
              LET all == Pending(tx'[1])
                  new == SubSeq(all, Len(all) - nb + 1, Len(all))
              IN /\ all = Pending(tx[1]) \o new
                 /\ new = TxOnlyFrames(0, nb)
                 /\ \A i, j \in 1 .. nb : i # j => new[i].idx # new[j].idx]_vars

\* the frame indices of a sequence of descriptors
Idx(d) == [i \in 1 .. Len(d) |-> d[i].idx]
\* the frames in circulation in the rxdrop loop: on the fill ring, on the rx
\* ring (published or not), and in the batch rx_drop has in hand
Circulating == FillSeq(1) \o Idx(RxSeq(1)) \o Idx(app.descs)
\* each donated frame is in circulation, once
Conserved == Len(Circulating) = Donated /\ Range(Circulating) = 0 .. (Donated - 1)

\* C24: the rxdrop loop conserves the frames in circulation.  The frames on
\* the fill ring, on the rx ring and in the user's hand are always the
\* frames xsk_configure donated, each once; rx_drop gives every frame it
\* dequeued back to the fill ring, and that call, whose return value is
\* dropped, never fails for lack of room.
C24_RxDropConservesFrames ==
    [][/\ Conserved /\ Conserved'
       /\ ~app'.failed
       /\ RxDropFill =>
             /\ ret'.err = "0"
             /\ Pending(fq'[1]) = Pending(fq[1]) \o Idx(app.descs)]_vars

\* rx_drop has given back a batch of two frames, later than the donation
\* wrote the fill ring, and the fill ring holds every donated frame again
C24_Witness ==
    /\ ret.op = "umem_fill_to_kernel_ex" /\ ret.copied = 2
    /\ ufq[1].cached_prod > NumDescs
    /\ Len(FillSeq(1)) = Donated

\* C27: in the l2fwd loop the assertion that xq_enq onto the tx ring
\* succeeds never fails: whenever the loop has a batch from the rx ring in
\* hand the tx ring has room for it, whatever the kernel delivered, the
\* device answered to the kicks (taken, or dropped and EAGAIN) and the
\* completions did; and outstanding_tx, never below zero, does not exceed
\* the tx ring.
C27_L2fwdEnqueueFits ==
    /\ ~app.failed
    /\ app.pc = "enq" => Len(app.descs) <= NumDescs - Outstanding(tx[1])
    /\ app.outstanding_tx \in 0 .. NumDescs

\* the slot stores of the user's fill-ring producer that have not reached memory
UnwrittenFill == {app.stores[i].pos : i \in {j \in DOMAIN app.stores : app.stores[j].kind = "slot"}}
\* the positions of the rx ring the running xq_deq is to return and has not loaded
UnreadRx == {U32(app.deq.start + i) : i \in Unread(app.deq)}

\* C21: in every interleaving of a ring's producer and consumer the producer
\* writes the slots before it publishes the producer counter that covers
\* them (no position between the shared counters is still to be written),
\* the consumer reads only positions between the shared counters and
\* publishes its consumer counter after it has read them; so the consumer
\* never reads a slot whose write is not finished and the producer never
\* writes a slot the consumer has still to read.  On the fill ring the user
\* is the producer (umem_fill_to_kernel) and the kernel the consumer; on the
\* rx ring the kernel is the producer (xsk_flush publishes) and the user the
\* consumer (xq_deq).
C21_PublishAfterWriteReadBeforeRelease ==
    [][/\ \A pos \in UnwrittenFill' : ~Covered(fq'[1], pos)
       /\ U32(rx'[1].producer - rx'[1].consumer) <= U32(rx'[1].prod_head - rx'[1].consumer)
       /\ (ret'.op = "xsk_rcv" /\ ret'.err = "0") =>
             /\ Covered(fq[1], fq[1].consumer) /\ fq[1].consumer \notin UnwrittenFill
             /\ \A pos \in UnreadRx : Slot(rx[1], pos) # Slot(rx[1], rx[1].prod_head)
       /\ DeqStoreConsumer => Unread(app.deq) = {}
       /\ DeqReturn => \A i \in 0 .. (app.deq.n - 1) : app.deq.got[i].covered]_vars

====
